---- MODULE Spec2Model ----
(***************************************************************************)
(* Model of the RAG pipeline of the AI-Session-Management repository:      *)
(*   - AIRetryHelper.retry            (common/AIRetryHelper.ts)            *)
(*   - OpenAI*Service provider calls  (services/OpenAI*Service.ts)         *)
(*   - AIRateLimiter                  (common/AIRateLimiter.ts)            *)
(*   - TextChunker.chunkText          (common/TextChunker.ts)              *)
(*   - the two cosineSimilarity       (services/OpenAIEmbeddingService.ts, *)
(*     functions                       repositories/TranscriptChunk-       *)
(*                                     Repository.ts)                      *)
(*   - TranscriptChunkRepository      (repositories/TranscriptChunk-       *)
(*                                     Repository.ts)                      *)
(*   - SessionService.embedSession    (services/SessionService.ts)         *)
(*     and searchSessions                                                  *)
(*   - TextChunker.highlightText      (common/TextChunker.ts)              *)
(* Each component has its own specification over the shared variables; the *)
(* variables of the components a specification does not run stay idle.     *)
(***************************************************************************)
EXTENDS Integers, Sequences, FiniteSets, TLC

VARIABLES
  \* ---- AIRetryHelper.retry: one call in flight
  caller,        \* who passed fn: "generic", "embedding", "summary", "transcription"
  opts,          \* the RetryOptions after destructuring with defaults
  pc,            \* "idle", "loop", "fn", "sleep", "returned", "thrown"
  attempt,       \* the for-loop counter
  lastError,     \* the local lastError (NoError = null)
  fnCalls,       \* history: outcome of every invocation of fn, in order
  sleeps,        \* history: every finalDelay passed to sleep, in order
  thrown,        \* the error retry rejected with (NoError while none)
  \* ---- the provider and the clock
  now,           \* Date.now()
  providerLog,   \* history: <<time, caller, http status>> of every provider request
  callsMade,     \* number of service or limiter calls started so far
  \* ---- AIRateLimiter
  requestTimes,  \* the private requestTimes array
  limiter,       \* [maxRequests, windowMs] set by the constructor
  admitted,      \* history: timestamps of the checkRateLimit calls that returned
  lastCheck,     \* history: the last limiter call and its result
  resetCalled,   \* history: reset() has been called
  forgotten,     \* history: number of calls admitted before the last reset()
  \* ---- TextChunker.chunkText: one call in flight
  text,          \* the text argument, a sequence of characters
  chunkSize,     \* the chunkSize argument
  overlap,       \* the overlap argument
  startIndex,    \* the local startIndex
  chunks,        \* the local chunks array
  cpc,           \* "idle", "enter", "loop", "break", "done"
  result,        \* the returned array
  \* ---- the two cosineSimilarity functions, applied to one pair of vectors
  vecA,          \* the first argument
  vecB,          \* the second argument
  serviceSimilarity,     \* outcome of OpenAIEmbeddingService.cosineSimilarity
  repositorySimilarity,  \* outcome of TranscriptChunkRepository.cosineSimilarity
  \* ---- the database
  transcriptChunks,  \* the rows of table transcript_chunks
  sessions,          \* the rows of table sessions, by id
  sessionEntries,    \* the rows of table session_entries, by sessionId
  uuids,             \* number of randomUUID() results handed out so far
  repoCall,          \* history: the last TranscriptChunkRepository call
  \* ---- the running process and its SessionService
  config,        \* the EnvConfig values read when the process started
  embed,         \* embedSession: position and locals of the call in flight
  search,        \* searchSessions: position and locals of the call in flight
  sessionCalls,  \* number of SessionService calls started so far
  suspended,     \* embedSession: a second call, waiting at an await
  \* ---- TextChunker.highlightText, applied to one text and list of terms
  highlight,     \* [text, queryTerms, highlighted]
  \* ---- asynchronous tasks that call checkRateLimit on the one limiter
  tasks          \* per task: "idle", or how its pending promise settled

retryVars == <<caller, opts, pc, attempt, lastError, fnCalls, sleeps, thrown>>
providerVars == <<now, providerLog, callsMade>>
limiterVars ==
  <<requestTimes, limiter, admitted, lastCheck, resetCalled, forgotten>>
chunkVars == <<text, chunkSize, overlap, startIndex, chunks, cpc, result>>
cosineVars == <<vecA, vecB, serviceSimilarity, repositorySimilarity>>
storeVars == <<transcriptChunks, uuids, repoCall>>
sessionVars ==
  <<sessions, sessionEntries, config, embed, search, sessionCalls, suspended>>
pipelineVars == <<cosineVars, storeVars, sessionVars, highlight, tasks>>
vars == <<retryVars, providerVars, limiterVars, chunkVars, pipelineVars>>

\* the variables outside the component(s) a specification runs
outsideRetry == <<limiterVars, chunkVars, pipelineVars>>
outsideLimiter == <<retryVars, chunkVars, pipelineVars>>
outsideChunker == <<retryVars, providerVars, limiterVars, pipelineVars>>
outsideCosine ==
  <<retryVars, providerVars, limiterVars, chunkVars, storeVars, sessionVars,
    highlight, tasks>>
outsideStore ==
  <<retryVars, providerVars, limiterVars, chunkVars, cosineVars, sessionVars,
    highlight, tasks>>
outsideSession ==
  <<retryVars, providerVars, limiterVars, cosineVars, suspended, highlight,
    tasks>>

----------------------------------------------------------------------------
(* Bounds of the model *)

\* largest maxRetries option tried
MaxRetriesBound == 3
\* largest maxRequests a limiter is constructed with
MaxRequestsBound == 2
\* the windowMs a limiter is constructed with
WindowInput == 3
\* the clock stops ticking here
MaxTime == 6
\* service calls made one after the other
MaxCalls == 2
\* limiter calls made one after the other
MaxLimiterCalls == 5

(* Program constants *)

\* `statusCode && ...`: an absent status and the status 0 are both falsy
NoStatus == 0
\* backoffMultiplier = 2 (default)
DefaultBackoffMultiplier == 2
\* waitTime / 1000: milliseconds in a second
MsPerSecond == 1000

\* retryableStatusCodes = [429, 500, 502, 503, 504] (default)
DefaultRetryableStatusCodes == {429, 500, 502, 503, 504}

----------------------------------------------------------------------------
(* Errors: the three places retry looks for a status in. *)

Err(statusCode, status, responseStatus, message) ==
  [statusCode |-> statusCode, status |-> status,
   responseStatus |-> responseStatus, message |-> message]

NoError == Err(NoStatus, NoStatus, NoStatus, "null")
RetryFailed == Err(NoStatus, NoStatus, NoStatus, "Retry failed")

\* the errors a generic fn is made to throw
ErrorInputs ==
  { Err(429, NoStatus, NoStatus, "rate limited"),
    Err(NoStatus, 500, NoStatus, "server error"),
    Err(NoStatus, NoStatus, 503, "unavailable"),
    Err(400, NoStatus, NoStatus, "bad request"),
    Err(NoStatus, NoStatus, NoStatus, "no status") }

\* const statusCode = error.statusCode || error.status || error.response?.status
StatusCodeOf(error) ==
  IF error.statusCode # NoStatus THEN error.statusCode
  ELSE IF error.status # NoStatus THEN error.status
  ELSE error.responseStatus

\* const isRetryable = statusCode && retryableStatusCodes.includes(statusCode)
IsRetryableStatusCodeOnly(error) ==
  /\ error.statusCode # NoStatus
  /\ error.statusCode \in opts.retryableStatusCodes
IsRetryableAnyStatus(error) ==
  StatusCodeOf(error) # NoStatus
IsRetryable(error) ==
  /\ StatusCodeOf(error) # NoStatus
  /\ StatusCodeOf(error) \in opts.retryableStatusCodes

\* the destructured local maxRetries, read by the loop condition and the catch
maxRetriesOffByOne == opts.maxRetries + 1
maxRetries == opts.maxRetries

RECURSIVE Pow(_, _)
Pow(b, e) == IF e <= 0 THEN 1 ELSE b * Pow(b, e - 1)

Min(a, b) == IF a <= b THEN a ELSE b
Max(a, b) == IF a >= b THEN a ELSE b

\* delay = Math.min(initialDelay * Math.pow(backoffMultiplier, attempt), maxDelay)
DelayUncapped(a) == opts.initialDelay * Pow(opts.backoffMultiplier, a)
Delay(a) == Min(opts.initialDelay * Pow(opts.backoffMultiplier, a), opts.maxDelay)

\* jitter = Math.random() * 0.3 * delay, Math.random() in [0, 1): whole
\* milliseconds j with 0 <= j < 0.3 * delay (j = 0 when delay = 0)
JitterInputs(delay) ==
  {j \in 0..((3 * delay) \div 10) : j = 0 \/ 10 * j < 3 * delay}

\* the option sets tried
RetryOptionInputs ==
  [maxRetries : -1..MaxRetriesBound,
   initialDelay : {1, 4},
   maxDelay : {10},
   backoffMultiplier : {DefaultBackoffMultiplier},
   retryableStatusCodes : {DefaultRetryableStatusCodes}]

----------------------------------------------------------------------------
(* AIRetryHelper.retry *)

\* for (...; attempt <= maxRetries; ...) and, past the loop,
\* throw lastError || new Error('Retry failed')
RetryLoop ==
  /\ pc = "loop"
  /\ IF attempt <= maxRetries
     THEN pc' = "fn" /\ UNCHANGED thrown
     ELSE /\ pc' = "thrown"
          /\ thrown' = IF lastError # NoError THEN lastError ELSE RetryFailed
  /\ UNCHANGED <<caller, opts, attempt, lastError, fnCalls, sleeps>>

\* the catch block: rethrow on the last attempt or a non-retryable error,
\* otherwise sleep for the jittered backoff delay
RetryCatch(error, jitter) ==
  /\ lastError' = error
  /\ IF attempt = maxRetries \/ ~IsRetryable(error)
     THEN pc' = "thrown" /\ thrown' = error /\ UNCHANGED sleeps
     ELSE /\ pc' = "sleep"
          /\ sleeps' = Append(sleeps, Delay(attempt) + jitter)
          /\ UNCHANGED thrown

\* return await fn(), fn resolving
RetryFnOk ==
  /\ pc = "fn"
  /\ caller = "generic"
  /\ fnCalls' = Append(fnCalls, NoError)
  /\ pc' = "returned"
  /\ UNCHANGED <<caller, opts, attempt, lastError, sleeps, thrown>>

\* return await fn(), fn rejecting with error
RetryFnFail ==
  /\ pc = "fn"
  /\ caller = "generic"
  /\ \E error \in ErrorInputs, jitter \in JitterInputs(Delay(attempt)) :
       /\ fnCalls' = Append(fnCalls, error)
       /\ RetryCatch(error, jitter)
  /\ UNCHANGED <<caller, opts, attempt>>

\* await this.sleep(finalDelay) resolves; attempt++
RetrySleepDone ==
  /\ pc = "sleep"
  /\ attempt' = attempt + 1
  /\ pc' = "loop"
  /\ now' = now + sleeps[Len(sleeps)]
  /\ UNCHANGED <<caller, opts, lastError, fnCalls, sleeps, thrown>>
  /\ UNCHANGED <<providerLog, callsMade>>

----------------------------------------------------------------------------
(* The OpenAI services: generateEmbedding, generateSummary, transcribeAudio. *)
(* Each passes AIRetryHelper.retry a closure that sends one provider        *)
(* request with fetch and throws a plain Error when the response is not ok. *)

Services == {"embedding", "summary", "transcription"}

\* the HTTP statuses the provider is made to answer with
HttpInputs == {200, 400, 429, 500, 503}

\* throw new Error(`OpenAI API error: ${response.status} - ...`): the status
\* is part of the message only; the Error has no statusCode, status or response
ProviderError(http) ==
  Err(NoStatus, NoStatus, NoStatus, "OpenAI API error: " \o ToString(http))

\* throw new Error('Invalid embedding response from OpenAI')
InvalidEmbedding ==
  Err(NoStatus, NoStatus, NoStatus, "Invalid embedding response from OpenAI")

\* the closure passed to retry: one fetch, then the checks of the response.
\* No limiter is consulted: the services hold no AIRateLimiter.
ServiceFetch ==
  /\ pc = "fn"
  /\ caller \in Services
  /\ \E http \in HttpInputs, wellFormed \in BOOLEAN,
        jitter \in JitterInputs(Delay(attempt)) :
       /\ providerLog' = Append(providerLog, [at |-> now, by |-> caller, http |-> http])
       /\ IF http # 200
          THEN /\ fnCalls' = Append(fnCalls, ProviderError(http))
               /\ RetryCatch(ProviderError(http), jitter)
          ELSE IF caller = "embedding" /\ ~wellFormed
          THEN /\ fnCalls' = Append(fnCalls, InvalidEmbedding)
               /\ RetryCatch(InvalidEmbedding, jitter)
          ELSE /\ fnCalls' = Append(fnCalls, NoError)
               /\ pc' = "returned"
               /\ UNCHANGED <<lastError, sleeps, thrown>>
  /\ UNCHANGED <<caller, opts, attempt, now, callsMade>>

----------------------------------------------------------------------------
(* AIRateLimiter *)

\* this.requestTimes.filter(time => now - time < this.windowMs)
InWindowInclusive(time) == now - time <= limiter.windowMs
InWindow(time) == now - time < limiter.windowMs

Prune(times) == SelectSeq(times, InWindow)

\* if (this.requestTimes.length >= this.maxRequests)
AtLimitOffByOne(times) == Len(times) > limiter.maxRequests
AtLimit(times) == Len(times) >= limiter.maxRequests

\* history helper: admitted calls in the trailing window that ends at time t
AdmittedInWindow(t) ==
  Cardinality({i \in DOMAIN admitted :
                 admitted[i] <= t /\ t - admitted[i] < limiter.windowMs})

\* checkRateLimit(): prune, then throw at the limit or record the request.
\* waitTime = windowMs - (now - requestTimes[0]); NaN when the list is empty.
\* The history keeps requestTimes.length as the test reads it (length).
CheckRateLimit ==
  LET kept == Prune(requestTimes) IN
  /\ IF AtLimit(kept)
     THEN /\ requestTimes' = kept
          /\ lastCheck' = [op |-> "check", at |-> now, result |-> "rejected",
                           count |-> AdmittedInWindow(now),
                           length |-> Len(kept),
                           waitNaN |-> (kept = <<>>),
                           wait |-> IF kept = <<>> THEN 0
                                    ELSE limiter.windowMs - (now - kept[1])]
          /\ UNCHANGED admitted
     ELSE /\ requestTimes' = Append(kept, now)
          /\ lastCheck' = [op |-> "check", at |-> now, result |-> "admitted",
                           count |-> AdmittedInWindow(now),
                           length |-> Len(kept),
                           waitNaN |-> FALSE, wait |-> 0]
          /\ admitted' = Append(admitted, now)
  /\ UNCHANGED <<limiter, resetCalled, forgotten>>

\* the requestTimes array a checkRateLimit call at the current time leaves
\* behind when it finds the array times
AfterCheck(times) ==
  LET kept == Prune(times)
  IN IF AtLimit(kept) THEN kept ELSE Append(kept, now)

\* `Please retry after ${Math.ceil(waitTime / 1000)} seconds.`: the wait
\* the error message reports, in whole seconds
RetryAfterSeconds(waitTime) ==
  (waitTime + MsPerSecond - 1) \div MsPerSecond

\* getRemainingRequests(): prune, return max(0, maxRequests - length)
GetRemainingRequests ==
  LET kept == Prune(requestTimes) IN
  /\ requestTimes' = kept
  /\ lastCheck' = [op |-> "remaining", at |-> now,
                   result |-> ToString(Max(0, limiter.maxRequests - Len(kept))),
                   count |-> AdmittedInWindow(now),
                   length |-> Len(kept),
                   waitNaN |-> FALSE, wait |-> 0]
  /\ UNCHANGED <<limiter, admitted, resetCalled, forgotten>>

\* reset()
ResetNothing ==
  /\ UNCHANGED requestTimes
  /\ resetCalled' = TRUE
  /\ forgotten' = Len(admitted)
  /\ lastCheck' = [op |-> "reset", at |-> now, result |-> "void",
                   count |-> AdmittedInWindow(now),
                   length |-> Len(requestTimes),
                   waitNaN |-> FALSE, wait |-> 0]
  /\ UNCHANGED <<limiter, admitted>>
Reset ==
  /\ requestTimes' = <<>>
  /\ resetCalled' = TRUE
  /\ forgotten' = Len(admitted)
  /\ lastCheck' = [op |-> "reset", at |-> now, result |-> "void",
                   count |-> AdmittedInWindow(now),
                   length |-> Len(requestTimes),
                   waitNaN |-> FALSE, wait |-> 0]
  /\ UNCHANGED <<limiter, admitted>>

----------------------------------------------------------------------------
(* Idle values of each component *)

RetryIdle ==
  /\ caller = "generic"
  /\ opts = [maxRetries |-> 0, initialDelay |-> 0, maxDelay |-> 0,
             backoffMultiplier |-> DefaultBackoffMultiplier,
             retryableStatusCodes |-> DefaultRetryableStatusCodes]
  /\ pc = "idle"
  /\ attempt = 0
  /\ lastError = NoError
  /\ fnCalls = <<>>
  /\ sleeps = <<>>
  /\ thrown = NoError

ProviderIdle ==
  /\ now = 0
  /\ providerLog = <<>>
  /\ callsMade = 0

ChunkerIdle ==
  /\ text = <<>>
  /\ chunkSize = 0
  /\ overlap = 0
  /\ startIndex = 0
  /\ chunks = <<>>
  /\ cpc = "idle"
  /\ result = <<>>

LimiterIdle ==
  /\ requestTimes = <<>>
  /\ limiter = [maxRequests |-> 0, windowMs |-> 0]
  /\ admitted = <<>>
  /\ lastCheck = [op |-> "none", at |-> 0, result |-> "void", count |-> 0,
                  length |-> 0, waitNaN |-> FALSE, wait |-> 0]
  /\ resetCalled = FALSE
  /\ forgotten = 0

\* the number 0 (numbers that are similarities are defined with Divide below)
Zero == [sign |-> 0, num |-> 0, den |-> 1]

\* no cosineSimilarity outcome yet
NoOutcome == [kind |-> "none", value |-> Zero, error |-> NoError]

CosineIdle ==
  /\ vecA = <<>>
  /\ vecB = <<>>
  /\ serviceSimilarity = NoOutcome
  /\ repositorySimilarity = NoOutcome

\* the optional argument sessionIds left out (undefined)
NoFilter == [given |-> FALSE, ids |-> <<>>]

\* no repository call yet
NoRepoCall ==
  [op |-> "none", sessionId |-> "", queryEmbedding |-> <<>>,
   sessionIds |-> NoFilter, limit |-> 0, before |-> {}, rows |-> <<>>,
   returned |-> <<>>, previous |-> <<"none", "">>]

StoreIdle ==
  /\ transcriptChunks = {}
  /\ uuids = 0
  /\ repoCall = NoRepoCall

\* no embedSession call in flight; the fields are the locals of embedSession
\* and, as history, the ids of the chunks the session had when the call
\* started (before), the ids of the chunks the call created (created), its
\* calls that changed table transcript_chunks, in order (storeOps), the
\* step a collaborator failed at (failedAt), the number of chunk ids handed
\* out when the call deleted the chunks (deletedAt, -1 before), the calls it
\* made to its repositories and services, in order (calls), and the tables
\* sessions, session_entries and transcript_chunks as they were when the
\* call started (stores)
NoEmbed ==
  [pc |-> "idle", sessionId |-> "", summary |-> <<>>, embedding |-> <<>>,
   entries |-> <<>>, entryIndex |-> 0, chunks |-> <<>>, chunkIndex |-> 0,
   chunkEmbedding |-> <<>>, chunkCount |-> 0, embeddingDimensions |-> 0,
   error |-> NoError, before |-> {}, created |-> {}, storeOps |-> <<>>,
   failedAt |-> "none", deletedAt |-> -1, calls |-> <<>>, stores |-> <<>>]

\* no searchSessions call in flight; the fields are the locals of
\* searchSessions and, as history, the calls it made to its collaborators,
\* in order (calls), and the sessions findById did not find when the
\* results were built (skipped)
NoSearch ==
  [pc |-> "idle", query |-> <<>>, therapistId |-> "", queryEmbedding |-> <<>>,
   queryTerms |-> <<>>, sessionIds |-> NoFilter, chunks |-> <<>>,
   sessionMap |-> <<>>, results |-> <<>>, error |-> NoError,
   calls |-> <<>>, skipped |-> {}]

SessionIdle ==
  /\ sessions = <<>>
  /\ sessionEntries = <<>>
  /\ config = [EMBEDDING_DIMENSIONS |-> 0, CHUNK_SIZE |-> 0,
               CHUNK_OVERLAP |-> 0, SEARCH_RESULTS_LIMIT |-> 0]
  /\ embed = NoEmbed
  /\ search = NoSearch
  /\ sessionCalls = 0
  /\ suspended = NoEmbed

\* highlightText has not been applied
HighlightIdle ==
  highlight = [text |-> <<>>, queryTerms |-> <<>>, highlighted |-> <<>>]

\* the tasks that can call the limiter
Tasks == {"task1", "task2", "task3"}

\* no task has called the limiter
TasksIdle == tasks = [task \in Tasks |-> "idle"]

PipelineIdle ==
  CosineIdle /\ StoreIdle /\ SessionIdle /\ HighlightIdle /\ TasksIdle

----------------------------------------------------------------------------
(* SpecRetry: one call of AIRetryHelper.retry, by an arbitrary fn ("generic") *)
(* or by one of the services.                                               *)

InitRetry ==
  /\ caller \in {"generic"} \cup Services
  /\ opts \in RetryOptionInputs
  /\ pc = "loop"
  /\ attempt = 0
  /\ lastError = NoError
  /\ fnCalls = <<>>
  /\ sleeps = <<>>
  /\ thrown = NoError
  /\ ProviderIdle
  /\ LimiterIdle
  /\ ChunkerIdle
  /\ PipelineIdle

NextRetry ==
  \/ RetryLoop /\ UNCHANGED <<providerVars, outsideRetry>>
  \/ RetryFnOk /\ UNCHANGED <<providerVars, outsideRetry>>
  \/ RetryFnFail /\ UNCHANGED <<providerVars, outsideRetry>>
  \/ ServiceFetch /\ UNCHANGED outsideRetry
  \/ RetrySleepDone /\ UNCHANGED outsideRetry

SpecRetry == InitRetry /\ [][NextRetry]_vars

----------------------------------------------------------------------------
(* SpecLimiter: one AIRateLimiter called over time by a single caller *)

\* Date.now() moves on
Tick ==
  /\ now < MaxTime
  /\ now' = now + 1
  /\ UNCHANGED <<providerLog, callsMade>>

InitLimiter ==
  /\ RetryIdle
  /\ ProviderIdle
  /\ ChunkerIdle
  /\ PipelineIdle
  /\ requestTimes = <<>>
  /\ limiter \in [maxRequests : 0..MaxRequestsBound, windowMs : {WindowInput}]
  /\ admitted = <<>>
  /\ lastCheck = [op |-> "none", at |-> 0, result |-> "void", count |-> 0,
                  length |-> 0, waitNaN |-> FALSE, wait |-> 0]
  /\ resetCalled = FALSE
  /\ forgotten = 0

\* one more call on the limiter, at the current time
LimiterCall ==
  /\ callsMade < MaxLimiterCalls
  /\ callsMade' = callsMade + 1
  /\ UNCHANGED <<retryVars, chunkVars, pipelineVars, now, providerLog>>

NextLimiter ==
  \/ Tick /\ UNCHANGED <<retryVars, outsideRetry>>
  \/ CheckRateLimit /\ LimiterCall
  \/ GetRemainingRequests /\ LimiterCall
  \/ Reset /\ LimiterCall

SpecLimiter == InitLimiter /\ [][NextLimiter]_vars

----------------------------------------------------------------------------
(* SpecService: a process that holds a configured limiter and makes service *)
(* calls one after the other.                                               *)

\* AI_RETRY_MAX_ATTEMPTS, AI_RETRY_INITIAL_DELAY, AI_RETRY_MAX_DELAY as set
\* in the environment of the modelled process
ServiceOptionInputs ==
  [maxRetries : {1},
   initialDelay : {1},
   maxDelay : {10},
   backoffMultiplier : {DefaultBackoffMultiplier},
   retryableStatusCodes : {DefaultRetryableStatusCodes}]

\* throw new Error('Text is required for embedding generation') and
\* throw new Error('Audio buffer is required for transcription')
InputRequired ==
  Err(NoStatus, NoStatus, NoStatus, "input is required")

\* generateEmbedding(text), generateSummary(entries), transcribeAudio(buffer)
\* or a direct retry(fn): the input checks, then AIRetryHelper.retry starts.
\* An empty entry list makes generateSummary return its fixed text at once.
ServiceStart ==
  /\ pc \in {"idle", "returned", "thrown"}
  /\ callsMade < MaxCalls
  /\ callsMade' = callsMade + 1
  /\ \E c \in {"generic"} \cup Services, inputOk \in BOOLEAN :
       /\ caller' = c
       /\ IF inputOk \/ c = "generic"
          THEN pc' = "loop" /\ thrown' = NoError
          ELSE IF c = "summary"
          THEN pc' = "returned" /\ thrown' = NoError
          ELSE pc' = "thrown" /\ thrown' = InputRequired
  /\ attempt' = 0
  /\ lastError' = NoError
  /\ fnCalls' = <<>>
  /\ sleeps' = <<>>
  /\ UNCHANGED <<opts, now, providerLog>>

InitService ==
  /\ caller = "generic"
  /\ opts \in ServiceOptionInputs
  /\ pc = "idle"
  /\ attempt = 0
  /\ lastError = NoError
  /\ fnCalls = <<>>
  /\ sleeps = <<>>
  /\ thrown = NoError
  /\ ProviderIdle
  /\ requestTimes = <<>>
  /\ limiter \in [maxRequests : 1..MaxRequestsBound, windowMs : {WindowInput}]
  /\ admitted = <<>>
  /\ lastCheck = [op |-> "none", at |-> 0, result |-> "void", count |-> 0,
                  length |-> 0, waitNaN |-> FALSE, wait |-> 0]
  /\ resetCalled = FALSE
  /\ forgotten = 0
  /\ ChunkerIdle
  /\ PipelineIdle

NextService ==
  \/ ServiceStart /\ UNCHANGED outsideRetry
  \/ RetryLoop /\ UNCHANGED <<providerVars, outsideRetry>>
  \/ RetryFnOk /\ UNCHANGED <<providerVars, outsideRetry>>
  \/ RetryFnFail /\ UNCHANGED <<providerVars, outsideRetry>>
  \/ ServiceFetch /\ UNCHANGED outsideRetry
  \/ RetrySleepDone /\ UNCHANGED outsideRetry
  \/ Tick /\ UNCHANGED <<retryVars, outsideRetry>>

SpecService == InitService /\ [][NextService]_vars

----------------------------------------------------------------------------
(* TextChunker.chunkText.  A text is a sequence of one-character strings;  *)
(* the JavaScript index i is the index i + 1 here.                         *)

\* if (chunks.length > 1000) break
MaxChunks == 1000

\* what String.prototype.trim removes, among the characters used
Whitespace == {" ", "\n"}

SetMin(S) == CHOOSE x \in S : \A y \in S : x <= y
SetMax(S) == CHOOSE x \in S : \A y \in S : y <= x

\* String.prototype.slice(a, b): a negative index counts from the end, both
\* are clamped to [0, length], and an empty string results when from >= to
SliceWhole(s, a, b) == s
Slice(s, a, b) ==
  LET from == IF a < 0 THEN Max(Len(s) + a, 0) ELSE Min(a, Len(s))
      to == IF b < 0 THEN Max(Len(s) + b, 0) ELSE Min(b, Len(s))
  IN IF from < to THEN SubSeq(s, from + 1, to) ELSE <<>>

\* String.prototype.lastIndexOf(ch): -1 when ch does not occur
LastIndexOf(s, ch) ==
  LET at == {i \in 1..Len(s) : s[i] = ch}
  IN IF at = {} THEN -1 ELSE SetMax(at) - 1

\* String.prototype.trim()
TrimNothing(s) == s
Trim(s) ==
  LET at == {i \in 1..Len(s) : s[i] \notin Whitespace}
  IN IF at = {} THEN <<>> ELSE SubSeq(s, SetMin(at), SetMax(at))

\* const endIndex = Math.min(startIndex + chunkSize, text.length)
EndIndexUnclamped == startIndex + chunkSize
EndIndex == Min(startIndex + chunkSize, Len(text))

\* if (lastSpaceIndex > chunkSize * 0.7)
BreakAtSpace(lastSpaceIndex) == 10 * lastSpaceIndex > 7 * chunkSize

\* if (chunks.length > 1000)
CapReachedNever(pushed) == FALSE
CapReached(pushed) == Len(pushed) > MaxChunks

Chunk(t, s, e) == [text |-> t, startIndex |-> s, endIndex |-> e]

\* chunks.filter(chunk => chunk.text.length > 0)
NonEmptyChunk(chunk) == Len(chunk.text) > 0

\* if (!text || text.length === 0) return []; otherwise the loop is entered
ChunkEnter ==
  /\ cpc = "enter"
  /\ IF Len(text) = 0
     THEN cpc' = "done"
     ELSE cpc' = "loop"
  /\ UNCHANGED <<text, chunkSize, overlap, startIndex, chunks, result>>

\* one iteration of while (startIndex < text.length), up to the cap check
ChunkIterate ==
  /\ cpc = "loop"
  /\ startIndex < Len(text)
  /\ LET endIndex == EndIndex
         chunkText == Slice(text, startIndex, endIndex)
         lastSpaceIndex == LastIndexOf(chunkText, " ")
         pushed ==
           IF endIndex < Len(text) /\ Len(chunkText) = chunkSize
           THEN IF BreakAtSpace(lastSpaceIndex)
                THEN Chunk(Trim(Slice(chunkText, 0, lastSpaceIndex + 1)),
                           startIndex, startIndex + lastSpaceIndex + 1)
                ELSE Chunk(Trim(chunkText), startIndex, endIndex)
           ELSE Chunk(Trim(chunkText), startIndex, endIndex)
         next ==
           IF endIndex < Len(text) /\ Len(chunkText) = chunkSize
           THEN IF BreakAtSpace(lastSpaceIndex)
                THEN startIndex + lastSpaceIndex + 1 - overlap
                ELSE endIndex - overlap
           ELSE endIndex
     IN /\ chunks' = Append(chunks, pushed)
        /\ startIndex' = next
        /\ cpc' = IF CapReached(chunks') THEN "break" ELSE "loop"
  /\ UNCHANGED <<text, chunkSize, overlap, result>>

\* the loop is left (its condition fails, or the cap broke it):
\* return chunks.filter(chunk => chunk.text.length > 0)
ChunkReturn ==
  /\ \/ cpc = "break"
     \/ cpc = "loop" /\ ~(startIndex < Len(text))
  /\ result' = SelectSeq(chunks, NonEmptyChunk)
  /\ cpc' = "done"
  /\ UNCHANGED <<text, chunkSize, overlap, startIndex, chunks>>

----------------------------------------------------------------------------
(* SpecChunker: one call of chunkText on a bounded set of arguments *)

\* longest text of the exhaustive family
MaxShortLen == 4
\* longest word after the space in the two-word family
MaxTail == 3

Chars == {"a", " ", "\n"}

RECURSIVE TextsOfLen(_)
TextsOfLen(n) ==
  IF n = 0 THEN {<<>>}
  ELSE {Append(t, c) : t \in TextsOfLen(n - 1), c \in Chars}

\* every text over Chars of length <= MaxShortLen
ShortTexts == UNION {TextsOfLen(n) : n \in 0..MaxShortLen}

Word(n) == [i \in 1..n |-> "a"]

\* two words separated by one space: a^i " " a^j
WordTexts == {Word(i) \o <<" ">> \o Word(j) : i \in 4..8, j \in 1..MaxTail}

\* "The quick brown fox jumps"
FoxText ==
  <<"T","h","e"," ","q","u","i","c","k"," ","b","r","o","w","n"," ",
    "f","o","x"," ","j","u","m","p","s">>

\* <<chunkSize, overlap>> pairs tried on the long texts
LongConfigs == {<<7, 3>>, <<7, 6>>, <<10, 2>>, <<10, 9>>, <<11, 10>>}

\* <<chunkSize, overlap>> pairs in which the window start cannot advance
StuckConfigs == {<<0, 0>>, <<0, 1>>, <<-1, 0>>, <<1, 1>>, <<1, 2>>, <<2, 3>>}

ChunkInputs ==
  {in \in ShortTexts \X (1..MaxShortLen) \X (0..(MaxShortLen - 1)) : in[3] < in[2]}
  \cup {<<t, c[1], c[2]>> : t \in WordTexts \cup {FoxText}, c \in LongConfigs}
  \cup {<<t, c[1], c[2]>> : t \in {<<"a">>, <<"a", "a">>, <<" ", "a", " ">>}, c \in StuckConfigs}

InitChunker ==
  /\ RetryIdle
  /\ ProviderIdle
  /\ LimiterIdle
  /\ PipelineIdle
  /\ \E in \in ChunkInputs :
       /\ text = in[1]
       /\ chunkSize = in[2]
       /\ overlap = in[3]
  /\ startIndex = 0
  /\ chunks = <<>>
  /\ cpc = "enter"
  /\ result = <<>>

NextChunker ==
  \/ ChunkEnter /\ UNCHANGED outsideChunker
  \/ ChunkIterate /\ UNCHANGED outsideChunker
  \/ ChunkReturn /\ UNCHANGED outsideChunker

SpecChunker == InitChunker /\ [][NextChunker]_vars

----------------------------------------------------------------------------
(* The two cosineSimilarity functions.  A vector is a sequence of integers; *)
(* a similarity is kept exact, as its sign and its square in lowest terms,  *)
(* so that two similarities are equal as records exactly when they are      *)
(* equal as real numbers.                                                   *)

\* greatest dimension of the vectors the two functions are applied to
MaxDimensions == 2

Sign(x) == IF x > 0 THEN 1 ELSE IF x < 0 THEN -1 ELSE 0

RECURSIVE Gcd(_, _)
Gcd(a, b) == IF b = 0 THEN a ELSE Gcd(b, a % b)

\* dotProduct / (Math.sqrt(normA) * Math.sqrt(normB)), for normA, normB > 0
Divide(dotProduct, normA, normB) ==
  LET n == dotProduct * dotProduct
      d == normA * normB
      g == Gcd(n, d)
  IN [sign |-> Sign(dotProduct), num |-> n \div g, den |-> d \div g]

\* x > y for two such numbers
Greater(x, y) ==
  IF x.sign # y.sign THEN x.sign > y.sign
  ELSE IF x.sign = 1 THEN x.num * y.den > y.num * x.den
  ELSE IF x.sign = -1 THEN x.num * y.den < y.num * x.den
  ELSE FALSE

\* for (let i = 0; i < vecA.length; i++) sum += a[i] * b[i]: the sum after
\* n rounds
RECURSIVE SumOfProducts(_, _, _)
SumOfProducts(a, b, n) ==
  IF n = 0 THEN 0 ELSE SumOfProducts(a, b, n - 1) + a[n] * b[n]

\* the loop and the return statement, the same text in both functions:
\* return denominator === 0 ? 0 : dotProduct / denominator
Cosine(a, b) ==
  LET dotProduct == SumOfProducts(a, b, Len(a))
      normA == SumOfProducts(a, a, Len(a))
      normB == SumOfProducts(b, b, Len(a))
  IN IF normA = 0 \/ normB = 0 THEN Zero ELSE Divide(dotProduct, normA, normB)

\* the function returned x
Number(x) == [kind |-> "number", value |-> x, error |-> NoError]
\* the function threw e
Failure(e) == [kind |-> "error", value |-> Zero, error |-> e]

\* throw new Error('Vectors must have the same length')
SameLengthError ==
  Err(NoStatus, NoStatus, NoStatus, "Vectors must have the same length")

\* OpenAIEmbeddingService.cosineSimilarity(vecA, vecB)
ServiceCosineSimilarityLenient(a, b) ==
  IF Len(a) # Len(b) THEN Number(Zero) ELSE Number(Cosine(a, b))
ServiceCosineSimilarity(a, b) ==
  IF Len(a) # Len(b) THEN Failure(SameLengthError) ELSE Number(Cosine(a, b))

\* TranscriptChunkRepository.cosineSimilarity(vecA, vecB)
RepositoryCosineSimilarity(a, b) ==
  IF Len(a) # Len(b) THEN Number(Zero) ELSE Number(Cosine(a, b))

----------------------------------------------------------------------------
(* SpecCosine: both functions applied to one pair of vectors *)

\* the numbers the vectors are made of
Components == {-1, 0, 1}

RECURSIVE VectorsOfLen(_)
VectorsOfLen(n) ==
  IF n = 0 THEN {<<>>}
  ELSE {Append(v, c) : v \in VectorsOfLen(n - 1), c \in Components}

\* every vector over Components of dimension <= MaxDimensions
CosineInputs == UNION {VectorsOfLen(n) : n \in 0..MaxDimensions}

ApplyServiceCosine ==
  /\ serviceSimilarity.kind = "none"
  /\ serviceSimilarity' = ServiceCosineSimilarity(vecA, vecB)
  /\ UNCHANGED <<vecA, vecB, repositorySimilarity>>

ApplyRepositoryCosine ==
  /\ repositorySimilarity.kind = "none"
  /\ repositorySimilarity' = RepositoryCosineSimilarity(vecA, vecB)
  /\ UNCHANGED <<vecA, vecB, serviceSimilarity>>

InitCosine ==
  /\ RetryIdle
  /\ ProviderIdle
  /\ LimiterIdle
  /\ ChunkerIdle
  /\ StoreIdle
  /\ SessionIdle
  /\ HighlightIdle
  /\ TasksIdle
  /\ vecA \in CosineInputs
  /\ vecB \in CosineInputs
  /\ serviceSimilarity = NoOutcome
  /\ repositorySimilarity = NoOutcome

NextCosine ==
  \/ ApplyServiceCosine /\ UNCHANGED outsideCosine
  \/ ApplyRepositoryCosine /\ UNCHANGED outsideCosine

SpecCosine == InitCosine /\ [][NextCosine]_vars

----------------------------------------------------------------------------
(* TranscriptChunkRepository over table transcript_chunks.  repoCall keeps  *)
(* the last call: its arguments; for findSimilarChunks the rows its query   *)
(* answered, in their order (rows), and the chunks it returned; for         *)
(* deleteBySessionId the table before it (before) and the operation and     *)
(* sessionId of the call before it (previous).                              *)

\* findSimilarChunks(queryEmbedding, sessionIds?, limit: number = 10)
DefaultLimit == 10

\* JSON.stringify(dto.embedding): the decimal text of every number
JsonStringify(embedding) ==
  [i \in DOMAIN embedding |-> ToString(embedding[i])]

\* JSON.parse(row.embedding)
JsonParse(json) ==
  [i \in DOMAIN json |-> CHOOSE n \in Components : ToString(n) = json[i]]

\* the row INSERT INTO transcript_chunks writes for dto under a new id
Row(dto, id) ==
  [id |-> id, sessionId |-> dto.sessionId, entryId |-> dto.entryId,
   chunkText |-> dto.chunkText, embedding |-> JsonStringify(dto.embedding),
   startIndex |-> dto.startIndex, endIndex |-> dto.endIndex,
   timestamp |-> dto.timestamp]

MapRowToChunk(row) == [row EXCEPT !.embedding = JsonParse(row.embedding)]

\* a call of the repository
RepoCall(op, sessionId) ==
  [NoRepoCall EXCEPT !.op = op, !.sessionId = sessionId]

\* create(dto)
Create(dto) ==
  /\ transcriptChunks' = transcriptChunks \cup {Row(dto, uuids + 1)}
  /\ uuids' = uuids + 1
  /\ repoCall' = RepoCall("create", dto.sessionId)

\* SELECT * FROM transcript_chunks, with WHERE "sessionId" IN (...) added
\* if (sessionIds && sessionIds.length > 0)
SelectedAll(sessionIds) == transcriptChunks
Selected(sessionIds) ==
  IF sessionIds.given /\ Len(sessionIds.ids) > 0
  THEN {row \in transcriptChunks :
          \E i \in DOMAIN sessionIds.ids : row.sessionId = sessionIds.ids[i]}
  ELSE transcriptChunks

\* ORDER BY timestamp DESC: the orders the database may answer in (rows
\* with equal timestamps come in any order)
ByTimestampDesc(rows) ==
  {order \in [1..Cardinality(rows) -> rows] :
     \A i, j \in 1..Cardinality(rows) :
       i < j => /\ order[i] # order[j]
                /\ order[i].timestamp >= order[j].timestamp}

\* (a, b) => b.similarity - a.similarity, as the sign of the difference
CompareAscending(a, b) ==
  IF Greater(a.similarity, b.similarity) THEN 1
  ELSE IF Greater(b.similarity, a.similarity) THEN -1
  ELSE 0
Compare(a, b) ==
  IF Greater(a.similarity, b.similarity) THEN -1
  ELSE IF Greater(b.similarity, a.similarity) THEN 1
  ELSE 0

\* Array.prototype.sort with Compare, a stable sort: the last item goes
\* behind the sorted items it does not have to precede
RECURSIVE Sort(_)
Sort(items) ==
  IF Len(items) = 0 THEN <<>>
  ELSE LET item == items[Len(items)]
           sorted == Sort(SubSeq(items, 1, Len(items) - 1))
           keep == Cardinality({i \in DOMAIN sorted :
                                  Compare(item, sorted[i]) >= 0})
       IN SubSeq(sorted, 1, keep) \o <<item>>
            \o SubSeq(sorted, keep + 1, Len(sorted))

\* findSimilarChunks(queryEmbedding, sessionIds, limit)
FindSimilarChunks(queryEmbedding, sessionIds, limit) ==
  /\ \E rows \in ByTimestampDesc(Selected(sessionIds)) :
       LET mapped == [i \in DOMAIN rows |-> MapRowToChunk(rows[i])]
           chunksWithSimilarity ==
             [i \in DOMAIN mapped |->
                [chunk |-> mapped[i],
                 similarity |-> RepositoryCosineSimilarity(
                                  queryEmbedding, mapped[i].embedding).value]]
           top == Slice(Sort(chunksWithSimilarity), 0, limit)
       IN repoCall' =
            [RepoCall("find", "") EXCEPT
               !.queryEmbedding = queryEmbedding, !.sessionIds = sessionIds,
               !.limit = limit, !.rows = rows,
               !.returned = [i \in DOMAIN top |-> top[i].chunk]]
  /\ UNCHANGED <<transcriptChunks, uuids>>

\* DELETE FROM transcript_chunks WHERE "sessionId" = ?
DeleteRowsNone(rows, sessionId) == rows
DeleteRows(rows, sessionId) == {row \in rows : row.sessionId # sessionId}

\* deleteBySessionId(sessionId)
DeleteBySessionId(sessionId) ==
  /\ transcriptChunks' = DeleteRows(transcriptChunks, sessionId)
  /\ repoCall' = [RepoCall("delete", sessionId) EXCEPT
                     !.before = transcriptChunks,
                     !.previous = <<repoCall.op, repoCall.sessionId>>]
  /\ UNCHANGED uuids

----------------------------------------------------------------------------
(* SpecStore: a TranscriptChunkRepository called with bounded arguments *)

\* number of create calls
MaxCreates == 3
\* largest limit argument besides the default
MaxLimit == 2

SessionIds == {"s1", "s2"}

Dto(sessionId, embedding, timestamp) ==
  [sessionId |-> sessionId, entryId |-> "e1", chunkText |-> <<"a">>,
   embedding |-> embedding, startIndex |-> 0, endIndex |-> 1,
   timestamp |-> timestamp]

\* the chunks created: two dimensions and one, two timestamps, equal and
\* different embeddings
DtoInputs ==
  {Dto("s1", <<1, 0>>, 1), Dto("s1", <<-1, 1>>, 2),
   Dto("s2", <<1, 1>>, 1), Dto("s2", <<1>>, 2)}

QueryInputs == {<<1, 0>>, <<1, 1>>}

FilterInputs ==
  {NoFilter} \cup {[given |-> TRUE, ids |-> ids] :
                     ids \in {<<>>, <<"s1">>, <<"s1", "s2">>}}

LimitInputs == (0..MaxLimit) \cup {DefaultLimit}

InitStore ==
  /\ RetryIdle
  /\ ProviderIdle
  /\ LimiterIdle
  /\ ChunkerIdle
  /\ CosineIdle
  /\ SessionIdle
  /\ HighlightIdle
  /\ TasksIdle
  /\ transcriptChunks = {}
  /\ uuids = 0
  /\ repoCall = NoRepoCall

NextStore ==
  \/ \E dto \in DtoInputs :
       uuids < MaxCreates /\ Create(dto) /\ UNCHANGED outsideStore
  \/ \E queryEmbedding \in QueryInputs, sessionIds \in FilterInputs,
        limit \in LimitInputs :
       \* a search leaves the table as it is: the searches are made on
       \* every table, not one after the other
       /\ repoCall.op # "find"
       /\ FindSimilarChunks(queryEmbedding, sessionIds, limit)
       /\ UNCHANGED outsideStore
  \/ \E sessionId \in SessionIds :
       DeleteBySessionId(sessionId) /\ UNCHANGED outsideStore

SpecStore == InitStore /\ [][NextStore]_vars

----------------------------------------------------------------------------
(* TextChunker.highlightText(text, queryTerms).  A string is a sequence of  *)
(* one-character strings, a list of terms a sequence of strings.            *)

\* longest text highlightText is applied to
MaxTextLen == 3
\* most terms in queryTerms
MaxTerms == 2

\* String.prototype.toLowerCase(), on the letters of the inputs
ToLowerCase(s) ==
  [i \in DOMAIN s |-> IF s[i] = "A" THEN "a"
                      ELSE IF s[i] = "B" THEN "b" ELSE s[i]]

\* `<mark>${originalMatch}</mark>`
Mark(originalMatch) ==
  <<"<", "m", "a", "r", "k", ">">> \o originalMatch
    \o <<"<", "/", "m", "a", "r", "k", ">">>

\* [...queryTerms].sort((a, b) => b.length - a.length): longer terms first,
\* terms of equal length in the order they came in (the sort is stable)
RECURSIVE SortedTerms(_)
SortedTerms(queryTerms) ==
  IF Len(queryTerms) = 0 THEN <<>>
  ELSE LET sorted == SortedTerms(SubSeq(queryTerms, 1, Len(queryTerms) - 1))
           term == queryTerms[Len(queryTerms)]
           ahead == {k \in DOMAIN sorted : Len(sorted[k]) >= Len(term)}
           at == IF ahead = {} THEN 0 ELSE SetMax(ahead)
       IN SubSeq(sorted, 1, at) \o <<term>>
            \o SubSeq(sorted, at + 1, Len(sorted))

\* the text the callback takes the replacement from: text.slice(offset,
\* offset + match.length), text being the argument of highlightText
\* (original) and offset the position of the match in the string that is
\* searched
OriginalMatch(original, offset, length) ==
  Slice(original, offset, offset + length)

\* highlighted.replace(regex, callback) from position i on (1-based): regex
\* is the escaped lowerTerm with flags g and i, so it matches the term
\* letter by letter whatever the case, leftmost first, and goes on behind
\* each match
RECURSIVE Replace(_, _, _, _)
Replace(highlighted, lowerTerm, original, i) ==
  LET length == Len(lowerTerm) IN
  IF i + length - 1 > Len(highlighted)
  THEN SubSeq(highlighted, i, Len(highlighted))
  ELSE IF ToLowerCase(SubSeq(highlighted, i, i + length - 1)) = lowerTerm
       THEN Mark(OriginalMatch(original, i - 1, length))
              \o Replace(highlighted, lowerTerm, original, i + length)
       ELSE <<highlighted[i]>> \o Replace(highlighted, lowerTerm, original, i + 1)

\* for (const term of sortedTerms): a blank term is skipped, every other one
\* is replaced in what the terms before it made of the text
RECURSIVE HighlightTerms(_, _, _)
HighlightTerms(highlighted, sortedTerms, original) ==
  IF Len(sortedTerms) = 0 THEN highlighted
  ELSE LET term == sortedTerms[1]
           rest == SubSeq(sortedTerms, 2, Len(sortedTerms))
       IN IF Len(term) = 0 \/ Len(Trim(term)) = 0
          THEN HighlightTerms(highlighted, rest, original)
          ELSE HighlightTerms(Replace(highlighted, ToLowerCase(term), original,
                                      1),
                              rest, original)

\* highlightText(text, queryTerms); original is the text argument
HighlightText(original, queryTerms) ==
  IF Len(queryTerms) = 0 THEN original
  ELSE HighlightTerms(original, SortedTerms(queryTerms), original)

----------------------------------------------------------------------------
(* SessionService.embedSession and searchSessions, called one after the    *)
(* other in a process that can be restarted with another configuration.    *)
(* A text is a sequence of one-character strings, the empty sequence also  *)
(* stands for a missing (null, undefined) text.                            *)

\* number of embedSession and searchSessions calls
MaxSessionCalls == 2

\* new AppError(message, statusCode)
AppError(message, statusCode) == Err(statusCode, NoStatus, NoStatus, message)

\* throw new Error('Text is required for embedding generation')
TextRequired ==
  Err(NoStatus, NoStatus, NoStatus, "Text is required for embedding generation")

\* return 'No session entries available for summarization.'
NoEntriesSummary ==
  <<"N","o"," ","s","e","s","s","i","o","n"," ","e","n","t","r","i","e","s"," ",
    "a","v","a","i","l","a","b","l","e"," ","f","o","r"," ",
    "s","u","m","m","a","r","i","z","a","t","i","o","n",".">>

\* generateEmbedding(text): the outcomes of a call.  A blank text is
\* rejected; otherwise retry either returns the provider's vector or throws
\* the provider's error.  The provider is asked for dimensions:
\* this.dimensions and answers with a vector of that dimension.
GenerateEmbedding(t) ==
  IF Len(t) = 0 \/ Len(Trim(t)) = 0
  THEN {[ok |-> FALSE, value |-> <<>>, error |-> TextRequired]}
  ELSE {[ok |-> TRUE, value |-> v, error |-> NoError] :
          v \in {e \in {<<1>>, <<-1>>, <<1, 0>>, <<1, 1>>} :
                   Len(e) = config.EMBEDDING_DIMENSIONS}}
       \cup {[ok |-> FALSE, value |-> <<>>, error |-> ProviderError(500)]}

\* generateSummary(entries): the outcomes of a call.  Without entries the
\* fixed text is returned and the provider is not asked.
GenerateSummary(entries) ==
  IF Len(entries) = 0
  THEN {[ok |-> TRUE, value |-> NoEntriesSummary, error |-> NoError]}
  ELSE {[ok |-> TRUE, value |-> <<"o", "k">>, error |-> NoError],
        [ok |-> FALSE, value |-> <<>>, error |-> ProviderError(500)]}

\* an error thrown inside embedSession or searchSessions is not caught:
\* the call rejects with it
ThrowSwallowed(call, error) == [call EXCEPT !.pc = "returned"]
Throw(call, error) == [call EXCEPT !.pc = "thrown", !.error = error]

\* ErrorHandler.handle: the status of the response to a rejected call, the
\* statusCode of an AppError and 500 for any other Error
ResponseStatus(error) ==
  IF error.statusCode # NoStatus THEN error.statusCode ELSE 500

NoCallInFlight ==
  /\ embed.pc \in {"idle", "returned", "thrown"}
  /\ search.pc \in {"idle", "returned", "thrown"}

\* embedSession(sessionId) is called
EmbedStart(sessionId) ==
  /\ NoCallInFlight
  /\ sessionCalls < MaxSessionCalls
  /\ sessionCalls' = sessionCalls + 1
  /\ embed' = [NoEmbed EXCEPT
                 !.pc = "findById", !.sessionId = sessionId,
                 !.stores = <<sessions, sessionEntries, transcriptChunks>>,
                 !.before = {row.id : row \in {r \in transcriptChunks :
                                                r.sessionId = sessionId}}]
  /\ search' = NoSearch
  /\ UNCHANGED <<sessions, sessionEntries, config, storeVars, chunkVars>>

\* const session = await findById(sessionId); if (!session) throw ...;
\* let summary = session.summary
EmbedFindById ==
  /\ embed.pc = "findById"
  /\ embed' =
       IF embed.sessionId \notin DOMAIN sessions
       THEN [Throw(embed, AppError("Session not found", 404)) EXCEPT
               !.calls = Append(@, "findById")]
       ELSE [embed EXCEPT
               !.calls = Append(@, "findById"),
               !.summary = sessions[embed.sessionId].summary,
               !.pc = IF Len(sessions[embed.sessionId].summary) = 0
                      THEN "summarize" ELSE "embedSummary"]
  /\ UNCHANGED <<sessions, sessionEntries, config, search, sessionCalls,
                 storeVars, chunkVars>>

\* if (!summary): findBySessionId, generateSummary, updateSummary
EmbedSummarize ==
  /\ embed.pc = "summarize"
  /\ \E out \in GenerateSummary(sessionEntries[embed.sessionId]) :
       IF out.ok
       THEN /\ embed' = [embed EXCEPT
                              !.summary = out.value,
                              !.calls = @ \o <<"findBySessionId",
                                               "generateSummary",
                                               "updateSummary">>,
                              !.pc = "embedSummary"]
            /\ sessions' = [sessions EXCEPT
                              ![embed.sessionId].summary = out.value]
       ELSE /\ embed' = [Throw(embed, out.error) EXCEPT
                           !.calls = @ \o <<"findBySessionId",
                                            "generateSummary">>,
                           !.failedAt = "summary"]
            /\ UNCHANGED sessions
  /\ UNCHANGED <<sessionEntries, config, search, sessionCalls, storeVars,
                 chunkVars>>

\* const embedding = await generateEmbedding(summary); updateEmbedding
EmbedSummaryEmbedding ==
  /\ embed.pc = "embedSummary"
  /\ \E out \in GenerateEmbedding(embed.summary) :
       IF out.ok
       THEN /\ embed' = [embed EXCEPT
                              !.embedding = out.value,
                              !.calls = @ \o <<"generateEmbedding",
                                               "updateEmbedding">>,
                              !.pc = "findEntries"]
            /\ sessions' = [sessions EXCEPT
                              ![embed.sessionId].embedding =
                                 JsonStringify(out.value)]
       ELSE /\ embed' = [Throw(embed, out.error) EXCEPT
                           !.calls = Append(@, "generateEmbedding"),
                           !.failedAt = "summaryEmbedding"]
            /\ UNCHANGED sessions
  /\ UNCHANGED <<sessionEntries, config, search, sessionCalls, storeVars,
                 chunkVars>>

\* const entries = await findBySessionId(sessionId); let chunkCount = 0
EmbedFindEntries ==
  /\ embed.pc = "findEntries"
  /\ embed' = [embed EXCEPT !.entries = sessionEntries[embed.sessionId],
                            !.calls = Append(@, "findBySessionId"),
                            !.chunkCount = 0, !.pc = "delete"]
  /\ UNCHANGED <<sessions, sessionEntries, config, search, sessionCalls,
                 storeVars, chunkVars>>

\* await this.chunkRepository.deleteBySessionId(sessionId)
EmbedDeleteSkipped ==
  /\ embed.pc = "delete"
  /\ embed' = [embed EXCEPT !.pc = "entry", !.entryIndex = 1]
  /\ UNCHANGED <<sessions, sessionEntries, config, search, sessionCalls,
                 storeVars, chunkVars>>
EmbedDelete ==
  /\ embed.pc = "delete"
  /\ DeleteBySessionId(embed.sessionId)
  /\ embed' = [embed EXCEPT !.pc = "entry", !.entryIndex = 1,
                            !.storeOps = Append(@, "delete"),
                            !.calls = Append(@, "deleteBySessionId"),
                            !.deletedAt = uuids]
  /\ UNCHANGED <<sessions, sessionEntries, config, search, sessionCalls,
                 chunkVars>>

\* embeddingDimensions: embedding.length
EmbeddingDimensionsOfChunks(e) == e.chunkCount
EmbeddingDimensions(e) == Len(e.embedding)

\* for (const entry of entries): the entry at entryIndex is skipped or its
\* text is handed to chunkText; after the last entry the result is returned
EmbedNextEntry ==
  /\ embed.pc = "entry"
  /\ IF embed.entryIndex > Len(embed.entries)
     THEN /\ embed' = [embed EXCEPT
                         !.pc = "returned",
                         !.embeddingDimensions = EmbeddingDimensions(embed)]
          /\ UNCHANGED chunkVars
     ELSE LET entry == embed.entries[embed.entryIndex]
              transcript == IF Len(entry.transcript) > 0
                            THEN entry.transcript ELSE entry.content
          IN IF Len(transcript) = 0
             THEN /\ embed' = [embed EXCEPT !.entryIndex = @ + 1]
                  /\ UNCHANGED chunkVars
             ELSE /\ embed' = [embed EXCEPT !.pc = "chunkText"]
                  /\ text' = transcript
                  /\ chunkSize' = config.CHUNK_SIZE
                  /\ overlap' = config.CHUNK_OVERLAP
                  /\ startIndex' = 0
                  /\ chunks' = <<>>
                  /\ cpc' = "enter"
                  /\ result' = <<>>
  /\ UNCHANGED <<sessions, sessionEntries, config, search, sessionCalls,
                 storeVars>>

\* const chunks = TextChunker.chunkText(...) has returned
EmbedTakeChunks ==
  /\ embed.pc = "chunkText"
  /\ cpc = "done"
  /\ embed' = IF Len(result) = 0
              THEN [embed EXCEPT !.chunks = <<>>, !.pc = "entry",
                                 !.entryIndex = @ + 1]
              ELSE [embed EXCEPT !.chunks = result, !.chunkIndex = 1,
                                 !.pc = "embedChunk"]
  /\ text' = <<>>
  /\ chunkSize' = 0
  /\ overlap' = 0
  /\ startIndex' = 0
  /\ chunks' = <<>>
  /\ cpc' = "idle"
  /\ result' = <<>>
  /\ UNCHANGED <<sessions, sessionEntries, config, search, sessionCalls,
                 storeVars>>

\* const chunkEmbedding = await generateEmbedding(chunk.text)
EmbedChunkEmbeddingRollback ==
  /\ embed.pc = "embedChunk"
  /\ \E out \in GenerateEmbedding(embed.chunks[embed.chunkIndex].text) :
       IF out.ok
       THEN /\ embed' = [embed EXCEPT
                           !.chunkEmbedding = out.value,
                           !.calls = Append(@, "generateEmbedding"),
                           !.pc = "create"]
            /\ UNCHANGED transcriptChunks
       ELSE /\ embed' = [Throw(embed, out.error) EXCEPT
                           !.calls = Append(@, "generateEmbedding"),
                           !.failedAt = "chunkEmbedding"]
            /\ transcriptChunks' =
                 {row \in transcriptChunks : row.id \notin embed.created}
  /\ UNCHANGED <<sessions, sessionEntries, config, search, sessionCalls,
                 uuids, repoCall, chunkVars>>
EmbedChunkEmbedding ==
  /\ embed.pc = "embedChunk"
  /\ \E out \in GenerateEmbedding(embed.chunks[embed.chunkIndex].text) :
       embed' = IF out.ok
                THEN [embed EXCEPT !.chunkEmbedding = out.value,
                                   !.calls = Append(@, "generateEmbedding"),
                                   !.pc = "create"]
                ELSE [Throw(embed, out.error) EXCEPT
                        !.calls = Append(@, "generateEmbedding"),
                        !.failedAt = "chunkEmbedding"]
  /\ UNCHANGED <<sessions, sessionEntries, config, search, sessionCalls,
                 storeVars, chunkVars>>

\* await this.chunkRepository.create({...}); chunkCount++; then the next
\* chunk, or the next entry after the last chunk
EmbedChunkCreate ==
  /\ embed.pc = "create"
  /\ LET entry == embed.entries[embed.entryIndex]
         chunk == embed.chunks[embed.chunkIndex]
         last == embed.chunkIndex = Len(embed.chunks)
     IN /\ Create([sessionId |-> embed.sessionId, entryId |-> entry.id,
                   chunkText |-> chunk.text,
                   embedding |-> embed.chunkEmbedding,
                   startIndex |-> chunk.startIndex,
                   endIndex |-> chunk.endIndex,
                   timestamp |-> entry.timestamp])
        /\ embed' = [embed EXCEPT
                       !.chunkCount = @ + 1,
                       !.created = @ \cup {uuids + 1},
                       !.storeOps = Append(@, "create"),
                       !.calls = Append(@, "create"),
                       !.chunkIndex = @ + 1,
                       !.entryIndex = IF last THEN @ + 1 ELSE @,
                       !.pc = IF last THEN "entry" ELSE "embedChunk"]
  /\ UNCHANGED <<sessions, sessionEntries, config, search, sessionCalls,
                 chunkVars>>

\* searchSessions(query, therapistId) is called: if (!query) throw ...
SearchStart(query, therapistId) ==
  /\ NoCallInFlight
  /\ sessionCalls < MaxSessionCalls
  /\ sessionCalls' = sessionCalls + 1
  /\ LET call == [NoSearch EXCEPT !.query = query,
                                  !.therapistId = therapistId]
     IN search' =
          IF Len(query) = 0
          THEN Throw(call, AppError("Query parameter is required", 400))
          ELSE [call EXCEPT !.pc = "embedQuery"]
  /\ embed' = NoEmbed
  /\ UNCHANGED <<sessions, sessionEntries, config, storeVars, chunkVars>>

\* query.split(/\s+/).filter(term => term.length > 2): the words of the
\* query that are longer than 2 characters
QueryTerms(query) ==
  LET RECURSIVE Words(_)
      Words(s) ==
        IF Len(s) = 0 THEN <<>>
        ELSE LET init == Words(SubSeq(s, 1, Len(s) - 1))
                 c == s[Len(s)]
             IN IF c \in Whitespace THEN init
                ELSE IF Len(s) > 1 /\ s[Len(s) - 1] \notin Whitespace
                     THEN [init EXCEPT ![Len(init)] = Append(@, c)]
                     ELSE Append(init, <<c>>)
  IN SelectSeq(Words(query), LAMBDA term : Len(term) > 2)

\* const queryEmbedding = await generateEmbedding(query); const queryTerms
\* = ...; if (therapistId)
SearchEmbedQuery ==
  /\ search.pc = "embedQuery"
  /\ \E out \in GenerateEmbedding(search.query) :
       search' = IF out.ok
                 THEN [search EXCEPT
                         !.queryEmbedding = out.value,
                         !.queryTerms = QueryTerms(search.query),
                         !.calls = Append(@, "generateEmbedding"),
                         !.pc = IF search.therapistId # ""
                                THEN "findByTherapistId"
                                ELSE "findSimilarChunks"]
                 ELSE [Throw(search, out.error) EXCEPT
                         !.calls = Append(@, "generateEmbedding")]
  /\ UNCHANGED <<sessions, sessionEntries, config, embed, sessionCalls,
                 storeVars, chunkVars>>

\* SELECT * FROM sessions WHERE "therapistId" = ? ORDER BY "startTime" DESC:
\* the ids, in the orders the database may answer in
FindByTherapistId(therapistId) ==
  LET ids == {id \in DOMAIN sessions : sessions[id].therapistId = therapistId}
  IN {order \in [1..Cardinality(ids) -> ids] :
        \A i, j \in 1..Cardinality(ids) :
          i < j => /\ order[i] # order[j]
                   /\ sessions[order[i]].startTime >= sessions[order[j]].startTime}

\* sessionIds = (await findByTherapistId(therapistId)).map(s => s.id);
\* if (sessionIds.length === 0) return { query, results: [] }
SearchFindByTherapistIdUnchecked ==
  /\ search.pc = "findByTherapistId"
  /\ \E ids \in FindByTherapistId(search.therapistId) :
       search' = [search EXCEPT
                    !.sessionIds = [given |-> TRUE, ids |-> ids],
                    !.calls = Append(@, "findByTherapistId"),
                    !.pc = "findSimilarChunks"]
  /\ UNCHANGED <<sessions, sessionEntries, config, embed, sessionCalls,
                 storeVars, chunkVars>>
SearchFindByTherapistId ==
  /\ search.pc = "findByTherapistId"
  /\ \E ids \in FindByTherapistId(search.therapistId) :
       search' = IF Len(ids) = 0
                 THEN [search EXCEPT
                         !.sessionIds = [given |-> TRUE, ids |-> ids],
                         !.calls = Append(@, "findByTherapistId"),
                         !.results = <<>>, !.pc = "returned"]
                 ELSE [search EXCEPT
                         !.sessionIds = [given |-> TRUE, ids |-> ids],
                         !.calls = Append(@, "findByTherapistId"),
                         !.pc = "findSimilarChunks"]
  /\ UNCHANGED <<sessions, sessionEntries, config, embed, sessionCalls,
                 storeVars, chunkVars>>

\* const chunks = await findSimilarChunks(queryEmbedding, sessionIds,
\*                                        EnvConfig.SEARCH_RESULTS_LIMIT * 3)
SearchFindSimilarChunks ==
  /\ search.pc = "findSimilarChunks"
  /\ FindSimilarChunks(search.queryEmbedding, search.sessionIds,
                       config.SEARCH_RESULTS_LIMIT * 3)
  /\ search' = [search EXCEPT !.chunks = repoCall'.returned,
                              !.calls = Append(@, "findSimilarChunks"),
                              !.pc = "score"]
  /\ UNCHANGED <<sessions, sessionEntries, config, embed, sessionCalls,
                 chunkVars>>

\* the body of for (const chunk of chunks), for the scored chunks in order:
\* the Map in insertion order
RECURSIVE GroupBySession(_)
GroupBySession(scored) ==
  IF Len(scored) = 0 THEN <<>>
  ELSE LET sessionMap == GroupBySession(SubSeq(scored, 1, Len(scored) - 1))
           item == scored[Len(scored)]
           at == {k \in DOMAIN sessionMap :
                    sessionMap[k].sessionId = item.chunk.sessionId}
       IN IF at = {}
          THEN Append(sessionMap,
                      [sessionId |-> item.chunk.sessionId,
                       chunks |-> <<item>>,
                       maxSimilarity |-> item.similarity])
          ELSE [sessionMap EXCEPT
                  ![CHOOSE k \in at : TRUE] =
                     [@ EXCEPT
                        !.chunks = Append(@, item),
                        !.maxSimilarity =
                           IF Greater(item.similarity, @)
                           THEN item.similarity ELSE @]]

\* for (const chunk of chunks): cosineSimilarity of the embedding service
\* on every chunk, grouped by session; the first error ends the call
SearchScore ==
  /\ search.pc = "score"
  /\ LET similarity ==
           [i \in DOMAIN search.chunks |->
              ServiceCosineSimilarity(search.queryEmbedding,
                                      search.chunks[i].embedding)]
         failed == {i \in DOMAIN search.chunks : similarity[i].kind = "error"}
     IN search' =
          IF failed # {}
          THEN Throw(search, similarity[SetMin(failed)].error)
          ELSE [search EXCEPT
                  !.sessionMap =
                     GroupBySession([i \in DOMAIN search.chunks |->
                                       [chunk |-> search.chunks[i],
                                        similarity |-> similarity[i].value]]),
                  !.pc = "build"]
  /\ UNCHANGED <<sessions, sessionEntries, config, embed, sessionCalls,
                 storeVars, chunkVars>>

\* const session = await findById(sessionId); if (!session) continue: the
\* groups of the sessions that are found
FoundUntilMissing(sessionMap) ==
  LET missing == {k \in DOMAIN sessionMap :
                    sessionMap[k].sessionId \notin DOMAIN sessions}
  IN IF missing = {} THEN sessionMap
     ELSE SubSeq(sessionMap, 1, SetMin(missing) - 1)
Found(sessionMap) ==
  SelectSeq(sessionMap, LAMBDA group : group.sessionId \in DOMAIN sessions)

\* for (const [sessionId, sessionData] of sessionMap.entries()): one result
\* per session that findById finds, with its top 3 chunks as snippets (the
\* snippet text is highlightText of the chunk's chunkText); then the
\* results are sorted and cut to SEARCH_RESULTS_LIMIT.  The sessions are
\* looked up one after the other; the rows they find are those of the table
\* at this step.
SearchBuild ==
  /\ search.pc = "build"
  /\ LET found == Found(search.sessionMap)
         results ==
           [k \in DOMAIN found |->
              LET topChunks == Slice(Sort(found[k].chunks), 0, 3)
              IN [sessionId |-> found[k].sessionId,
                  therapistId |-> sessions[found[k].sessionId].therapistId,
                  summary |-> sessions[found[k].sessionId].summary,
                  similarity |-> found[k].maxSimilarity,
                  snippets |-> [n \in DOMAIN topChunks |->
                                  [chunk |-> topChunks[n].chunk,
                                   text |-> HighlightText(
                                              topChunks[n].chunk.chunkText,
                                              search.queryTerms),
                                   timestamp |-> topChunks[n].chunk.timestamp,
                                   similarity |-> topChunks[n].similarity]]]]
     IN search' = [search EXCEPT
                     !.results = Slice(Sort(results), 0,
                                       config.SEARCH_RESULTS_LIMIT),
                     !.calls = @ \o [k \in DOMAIN search.sessionMap |->
                                       "findById"],
                     !.skipped = {search.sessionMap[k].sessionId :
                                    k \in DOMAIN search.sessionMap}
                                   \ DOMAIN sessions,
                     !.pc = "returned"]
  /\ UNCHANGED <<sessions, sessionEntries, config, embed, sessionCalls,
                 storeVars, chunkVars>>

\* the process is started again with other values in its environment; the
\* database stays
Restart ==
  /\ NoCallInFlight
  /\ \E c \in [EMBEDDING_DIMENSIONS : {1, 2}, CHUNK_SIZE : {3},
               CHUNK_OVERLAP : {1}, SEARCH_RESULTS_LIMIT : {1}] :
       /\ c # config
       /\ config' = c
  /\ embed' = NoEmbed
  /\ search' = NoSearch
  /\ UNCHANGED <<sessions, sessionEntries, sessionCalls, storeVars, chunkVars>>

----------------------------------------------------------------------------
(* SpecSession: two sessions, one with entries and one without; embedSession *)
(* and searchSessions are called one at a time                              *)

InitSession ==
  /\ RetryIdle
  /\ ProviderIdle
  /\ LimiterIdle
  /\ ChunkerIdle
  /\ CosineIdle
  /\ StoreIdle
  /\ sessions = [id \in SessionIds |->
                   [therapistId |-> IF id = "s1" THEN "t1" ELSE "t2",
                    startTime |-> 1, summary |-> <<>>, embedding |-> <<>>]]
  /\ sessionEntries =
       [id \in SessionIds |->
          IF id = "s1"
          THEN <<[id |-> "e1", transcript |-> <<"a", "a", " ", "a">>,
                  content |-> <<"b">>, timestamp |-> 1],
                 [id |-> "e2", transcript |-> <<>>, content |-> <<>>,
                  timestamp |-> 2]>>
          ELSE <<>>]
  /\ config \in [EMBEDDING_DIMENSIONS : {1, 2}, CHUNK_SIZE : {3},
                 CHUNK_OVERLAP : {1}, SEARCH_RESULTS_LIMIT : {1}]
  /\ embed = NoEmbed
  /\ search = NoSearch
  /\ sessionCalls = 0
  /\ suspended = NoEmbed
  /\ HighlightIdle
  /\ TasksIdle

\* embedSession is called for the two sessions and for an unknown id;
\* searchSessions with the empty query, a blank one and a word, and with no
\* therapistId, the owners of s1 and s2 and an owner of no session
NextSession ==
  \/ \E sessionId \in SessionIds \cup {"s0"} :
       EmbedStart(sessionId) /\ UNCHANGED outsideSession
  \/ EmbedFindById /\ UNCHANGED outsideSession
  \/ EmbedSummarize /\ UNCHANGED outsideSession
  \/ EmbedSummaryEmbedding /\ UNCHANGED outsideSession
  \/ EmbedFindEntries /\ UNCHANGED outsideSession
  \/ EmbedDelete /\ UNCHANGED outsideSession
  \/ EmbedNextEntry /\ UNCHANGED outsideSession
  \/ ChunkEnter /\ UNCHANGED outsideChunker
  \/ ChunkIterate /\ UNCHANGED outsideChunker
  \/ ChunkReturn /\ UNCHANGED outsideChunker
  \/ EmbedTakeChunks /\ UNCHANGED outsideSession
  \/ EmbedChunkEmbedding /\ UNCHANGED outsideSession
  \/ EmbedChunkCreate /\ UNCHANGED outsideSession
  \/ \E query \in {<<>>, <<" ">>, <<"a", "b", "c">>},
        therapistId \in {"", "t1", "t2", "t3"} :
       SearchStart(query, therapistId) /\ UNCHANGED outsideSession
  \/ SearchEmbedQuery /\ UNCHANGED outsideSession
  \/ SearchFindByTherapistId /\ UNCHANGED outsideSession
  \/ SearchFindSimilarChunks /\ UNCHANGED outsideSession
  \/ SearchScore /\ UNCHANGED outsideSession
  \/ SearchBuild /\ UNCHANGED outsideSession
  \/ Restart /\ UNCHANGED outsideSession

SpecSession == InitSession /\ [][NextSession]_vars

----------------------------------------------------------------------------
(* SpecHighlight: highlightText applied to every short text and list of     *)
(* short terms                                                              *)

\* every string over letters of length n
RECURSIVE StringsOfLen(_, _)
StringsOfLen(letters, n) ==
  IF n = 0 THEN {<<>>}
  ELSE {Append(t, c) : t \in StringsOfLen(letters, n - 1), c \in letters}

\* every list of n terms, a term being a word of one or two letters or a
\* blank
RECURSIVE TermLists(_)
TermLists(n) ==
  IF n = 0 THEN {<<>>}
  ELSE {Append(l, term) :
          l \in TermLists(n - 1),
          term \in StringsOfLen({"a", "b"}, 1) \cup StringsOfLen({"a", "b"}, 2)
                     \cup {<<"B">>, <<" ">>}}

ApplyHighlightText ==
  /\ highlight.highlighted = <<>>
  /\ highlight' =
       [highlight EXCEPT
          !.highlighted = HighlightText(highlight.text, highlight.queryTerms)]

InitHighlight ==
  /\ RetryIdle
  /\ ProviderIdle
  /\ LimiterIdle
  /\ ChunkerIdle
  /\ CosineIdle
  /\ StoreIdle
  /\ SessionIdle
  /\ TasksIdle
  /\ highlight \in
       [text : UNION {StringsOfLen({"a", "b", "B"}, n) : n \in 1..MaxTextLen},
        queryTerms : UNION {TermLists(n) : n \in 0..MaxTerms},
        highlighted : {<<>>}]

NextHighlight ==
  ApplyHighlightText
  /\ UNCHANGED <<retryVars, providerVars, limiterVars, chunkVars, cosineVars,
                 storeVars, sessionVars, tasks>>

SpecHighlight == InitHighlight /\ [][NextHighlight]_vars

----------------------------------------------------------------------------
(* SpecSearch: searchSessions on a table that earlier embedSession calls    *)
(* have filled, while sessions are deleted by other requests                *)

\* largest SEARCH_RESULTS_LIMIT the process is configured with
MaxResultsLimit == 2

\* DELETE FROM sessions WHERE id = ?: the entries and the chunks of the
\* session go with it (FOREIGN KEY ... ON DELETE CASCADE)
DeleteSession(sessionId) ==
  /\ search.pc \notin {"idle", "returned", "thrown"}
  /\ sessionId \in DOMAIN sessions
  /\ sessions' = [id \in DOMAIN sessions \ {sessionId} |-> sessions[id]]
  /\ sessionEntries' =
       [id \in DOMAIN sessionEntries \ {sessionId} |-> sessionEntries[id]]
  /\ transcriptChunks' = {row \in transcriptChunks : row.sessionId # sessionId}
  /\ UNCHANGED <<config, embed, search, sessionCalls, uuids, repoCall,
                 chunkVars>>

\* the rows the table is filled from: four chunks of s1 and two of s2, with
\* different embeddings; two chunks of s1 have the same timestamp
ChunkPool ==
  {Row(Dto("s1", <<1, 0>>, 1), 1), Row(Dto("s1", <<1, 1>>, 2), 2),
   Row(Dto("s1", <<0, 1>>, 3), 3), Row(Dto("s1", <<-1, 0>>, 3), 4),
   Row(Dto("s2", <<1, 1>>, 1), 5), Row(Dto("s2", <<0, 1>>, 2), 6)}

\* a table on which the chunks of one session fill the over-fetch of a
\* search for two results (SEARCH_RESULTS_LIMIT * 3 = 6): six chunks of s1
\* and one chunk of s2, which is less similar to either query
CrowdedTable ==
  {Row(Dto("s1", <<1, 0>>, 1 + i), 6 + i) : i \in 1..6}
    \cup {Row(Dto("s2", <<0, -1>>, 1), 13)}

InitSearch ==
  /\ RetryIdle
  /\ ProviderIdle
  /\ LimiterIdle
  /\ ChunkerIdle
  /\ CosineIdle
  /\ HighlightIdle
  /\ TasksIdle
  /\ transcriptChunks \in (SUBSET ChunkPool) \cup {CrowdedTable}
  /\ uuids = Cardinality(ChunkPool \cup CrowdedTable)
  /\ repoCall = NoRepoCall
  /\ sessions = [id \in SessionIds |->
                   [therapistId |-> IF id = "s1" THEN "t1" ELSE "t2",
                    startTime |-> 1, summary |-> <<"o", "k">>,
                    embedding |-> JsonStringify(<<1, 0>>)]]
  /\ sessionEntries = [id \in SessionIds |-> <<>>]
  /\ config \in [EMBEDDING_DIMENSIONS : {2}, CHUNK_SIZE : {3},
                 CHUNK_OVERLAP : {1},
                 SEARCH_RESULTS_LIMIT : 1..MaxResultsLimit]
  /\ embed = NoEmbed
  /\ search = NoSearch
  /\ sessionCalls = 0
  /\ suspended = NoEmbed

\* searchSessions is called with the empty query, a blank one and a word,
\* and with no therapistId, the owners of s1 and s2 and an owner of no
\* session
NextSearch ==
  \/ \E query \in {<<>>, <<" ">>, <<"a", "b", "c">>},
        therapistId \in {"", "t1", "t2", "t3"} :
       SearchStart(query, therapistId) /\ UNCHANGED outsideSession
  \/ SearchEmbedQuery /\ UNCHANGED outsideSession
  \/ SearchFindByTherapistId /\ UNCHANGED outsideSession
  \/ SearchFindSimilarChunks /\ UNCHANGED outsideSession
  \/ SearchScore /\ UNCHANGED outsideSession
  \/ SearchBuild /\ UNCHANGED outsideSession
  \/ \E sessionId \in SessionIds :
       DeleteSession(sessionId) /\ UNCHANGED outsideSession

SpecSearch == InitSearch /\ [][NextSearch]_vars

----------------------------------------------------------------------------
(* SpecEmbedRace: two embedSession calls on the same session, made by two   *)
(* requests at the same time.  The process has one thread: a call runs      *)
(* until it awaits a collaborator, and then the other call may go on.       *)

\* the call that runs awaits (it is not inside the synchronous entry loop
\* or chunkText) and the other call, which has not ended, goes on
Switch ==
  /\ embed.pc \notin {"entry", "chunkText"}
  /\ cpc = "idle"
  /\ suspended.pc \notin {"idle", "returned", "thrown"}
  /\ embed' = suspended
  /\ suspended' = embed
  /\ UNCHANGED <<sessions, sessionEntries, config, search, sessionCalls,
                 storeVars, chunkVars, retryVars, providerVars, limiterVars,
                 cosineVars, highlight, tasks>>

InitEmbedRace ==
  /\ RetryIdle
  /\ ProviderIdle
  /\ LimiterIdle
  /\ ChunkerIdle
  /\ CosineIdle
  /\ StoreIdle
  /\ HighlightIdle
  /\ TasksIdle
  /\ sessions = [id \in {"s1"} |->
                   [therapistId |-> "t1", startTime |-> 1, summary |-> <<>>,
                    embedding |-> <<>>]]
  /\ sessionEntries =
       [id \in {"s1"} |->
          <<[id |-> "e1", transcript |-> <<"a", "a", " ", "a">>,
             content |-> <<"b">>, timestamp |-> 1]>>]
  /\ config \in [EMBEDDING_DIMENSIONS : {1, 2}, CHUNK_SIZE : {3},
                 CHUNK_OVERLAP : {1}, SEARCH_RESULTS_LIMIT : {1}]
  /\ embed = [NoEmbed EXCEPT !.pc = "findById", !.sessionId = "s1",
                             !.stores = <<sessions, sessionEntries, {}>>]
  /\ suspended = embed
  /\ search = NoSearch
  /\ sessionCalls = 2

NextEmbedRace ==
  \/ Switch
  \/ EmbedFindById /\ UNCHANGED outsideSession
  \/ EmbedSummarize /\ UNCHANGED outsideSession
  \/ EmbedSummaryEmbedding /\ UNCHANGED outsideSession
  \/ EmbedFindEntries /\ UNCHANGED outsideSession
  \/ EmbedDelete /\ UNCHANGED outsideSession
  \/ EmbedNextEntry /\ UNCHANGED outsideSession
  \/ ChunkEnter /\ UNCHANGED outsideChunker
  \/ ChunkIterate /\ UNCHANGED outsideChunker
  \/ ChunkReturn /\ UNCHANGED outsideChunker
  \/ EmbedTakeChunks /\ UNCHANGED outsideSession
  \/ EmbedChunkEmbedding /\ UNCHANGED outsideSession
  \/ EmbedChunkCreate /\ UNCHANGED outsideSession

SpecEmbedRace == InitEmbedRace /\ [][NextEmbedRace]_vars

----------------------------------------------------------------------------
(* SpecTasks: asynchronous tasks of the one process call checkRateLimit on  *)
(* the same limiter without waiting for each other.  checkRateLimit is an   *)
(* async function without an await: a call runs its whole body when it is   *)
(* made and returns a settled promise; the task goes on when the promise's  *)
(* continuation is run, which can be after the calls of other tasks.        *)

\* await limiter.checkRateLimit(): the call is made, the task waits
TaskCall(task) ==
  /\ tasks[task] = "idle"
  /\ callsMade < MaxLimiterCalls
  /\ callsMade' = callsMade + 1
  /\ CheckRateLimit
  /\ tasks' = [tasks EXCEPT ![task] = lastCheck'.result]
  /\ UNCHANGED <<retryVars, chunkVars, cosineVars, storeVars, sessionVars,
                 highlight, now, providerLog>>

\* the continuation of the task runs
TaskResume(task) ==
  /\ tasks[task] # "idle"
  /\ tasks' = [tasks EXCEPT ![task] = "idle"]
  /\ UNCHANGED <<retryVars, providerVars, limiterVars, chunkVars, cosineVars,
                 storeVars, sessionVars, highlight>>

InitTasks ==
  /\ InitLimiter
  /\ limiter.maxRequests >= 1

NextTasks ==
  \/ Tick /\ UNCHANGED <<retryVars, outsideRetry>>
  \/ \E task \in Tasks : TaskCall(task)
  \/ \E task \in Tasks : TaskResume(task)

SpecTasks == InitTasks /\ [][NextTasks]_vars

----------------------------------------------------------------------------
(* Claims about AIRetryHelper.retry, checked under SpecRetry *)

\* an error whose status retry is documented to retry on
HasRetryableStatus(error) ==
  StatusCodeOf(error) \in DefaultRetryableStatusCodes

IsFailure(outcome) == outcome # NoError

\* C1: for maxRetries >= 0 and any outcomes of the operation, retry invokes
\* the operation at most maxRetries + 1 times.
C1_AtMostMaxRetriesPlusOne ==
  opts.maxRetries >= 0 => Len(fnCalls) <= opts.maxRetries + 1

\* C1 witness: a call that used all maxRetries + 1 = 4 invocations and ended
C1_Witness ==
  /\ opts.maxRetries = MaxRetriesBound
  /\ Len(fnCalls) = opts.maxRetries + 1
  /\ pc \in {"returned", "thrown"}

\* C2: when the first k <= maxRetries invocations fail with a retryable
\* status, retry goes on to invocation k + 1, and when that one succeeds
\* retry returns and the operation has been invoked exactly k + 1 times.
C2_RetryableThenSuccess ==
  \A k \in 0..opts.maxRetries :
    (/\ Len(fnCalls) >= k
     /\ \A i \in 1..k : IsFailure(fnCalls[i]) /\ HasRetryableStatus(fnCalls[i]))
    => /\ Len(fnCalls) = k => pc \in {"loop", "fn", "sleep"}
       /\ (Len(fnCalls) > k /\ ~IsFailure(fnCalls[k + 1]))
            => pc = "returned" /\ Len(fnCalls) = k + 1 /\ thrown = NoError

\* C2 witness: maxRetries = 3, two retryable failures, success on the third
C2_Witness ==
  /\ opts.maxRetries = 3
  /\ pc = "returned"
  /\ Len(fnCalls) = 3
  /\ StatusCodeOf(fnCalls[1]) = 429
  /\ HasRetryableStatus(fnCalls[2])
  /\ fnCalls[3] = NoError

\* C3: an invocation that fails with a status outside retryableStatusCodes,
\* or with no status, is the last one: retry rejects with that same error,
\* and no sleep follows the failure.
C3_NonRetryableFailsFast ==
  \A i \in 1..Len(fnCalls) :
    (/\ IsFailure(fnCalls[i])
     /\ ~HasRetryableStatus(fnCalls[i]))
    => /\ i = Len(fnCalls)
       /\ pc = "thrown"
       /\ thrown = fnCalls[i]
       /\ Len(sleeps) = i - 1

\* C3 witness: status 400 on the first attempt, with retries left
C3_Witness ==
  /\ opts.maxRetries = 3
  /\ pc = "thrown"
  /\ Len(fnCalls) = 1
  /\ StatusCodeOf(fnCalls[1]) = 400
  /\ sleeps = <<>>

\* C4: when the provider answers generateEmbedding with a retryable HTTP
\* status, the failure surfaces only after maxRetries + 1 provider requests
\* have failed.
C4_EmbeddingRetriedOnRetryableHttp ==
  (/\ caller = "embedding"
   /\ opts.maxRetries >= 0
   /\ pc = "thrown"
   /\ providerLog # <<>>
   /\ providerLog[Len(providerLog)].http \in DefaultRetryableStatusCodes)
  => Len(providerLog) = opts.maxRetries + 1

----------------------------------------------------------------------------
(* Claims about AIRateLimiter, checked under SpecLimiter and SpecService *)

\* C5: with maxRequests >= 1 and no reset, a checkRateLimit call is rejected
\* exactly when the admitted calls in the trailing windowMs have reached
\* maxRequests, and no trailing window of length windowMs ever holds more
\* than maxRequests admitted calls.
C5_RejectedExactlyAtLimit ==
  (limiter.maxRequests >= 1 /\ ~resetCalled)
  => /\ lastCheck.op = "check"
          => (lastCheck.result = "rejected"
                <=> lastCheck.count >= limiter.maxRequests)
     /\ \A t \in 0..now : AdmittedInWindow(t) <= limiter.maxRequests

\* C5 witness: a rejected call with the window full, after an earlier
\* admitted call has aged out of the window
C5_Witness ==
  /\ limiter.maxRequests = 2
  /\ ~resetCalled
  /\ lastCheck.op = "check"
  /\ lastCheck.result = "rejected"
  /\ Len(admitted) > limiter.maxRequests
  /\ AdmittedInWindow(now) = limiter.maxRequests

\* C6: the provider requests of the services within any trailing windowMs
\* never exceed the limiter's maxRequests.
ProviderRequestsInWindow(t) ==
  Cardinality({i \in DOMAIN providerLog :
                 providerLog[i].at <= t /\ t - providerLog[i].at < limiter.windowMs})

C6_ProviderRequestsRateLimited ==
  \A t \in 0..now : ProviderRequestsInWindow(t) <= limiter.maxRequests

----------------------------------------------------------------------------
(* Claims about TextChunker.chunkText, checked under SpecChunker *)

ValidOverlap == 0 < overlap /\ overlap < chunkSize

\* offset off of the text lies in the span of a returned chunk
Covered(off) ==
  \E i \in DOMAIN result :
    result[i].startIndex <= off /\ off < result[i].endIndex

\* C7: for 0 < overlap < chunkSize the spans [startIndex, endIndex) of the
\* returned chunks cover every character offset of the text.
C7_SpansCoverText ==
  (cpc = "done" /\ ValidOverlap)
  => \A off \in 0..(Len(text) - 1) : Covered(off)

\* C7, the case in the code: a call with 0 < overlap < chunkSize that ended
\* below the cap and left a non-whitespace character outside every span
C7_LostCharacter ==
  /\ cpc = "done"
  /\ ValidOverlap
  /\ Len(chunks) <= MaxChunks
  /\ \E off \in 0..(Len(text) - 1) :
       text[off + 1] \notin Whitespace /\ ~Covered(off)

\* C8: for 0 < overlap < chunkSize every returned chunk has
\* 0 <= startIndex < endIndex <= text length and spans at most chunkSize.
C8_SpansWithinText ==
  ValidOverlap
  => \A i \in DOMAIN result :
       /\ 0 <= result[i].startIndex
       /\ result[i].startIndex < result[i].endIndex
       /\ result[i].endIndex <= Len(text)
       /\ result[i].endIndex - result[i].startIndex <= chunkSize

\* C8 witness: a finished call whose window start went negative on the way
\* and that still returned several chunks
C8_Witness ==
  /\ cpc = "done"
  /\ ValidOverlap
  /\ Len(result) >= 2
  /\ \E i \in DOMAIN chunks : chunks[i].startIndex < 0

\* C9: chunkText never returns more than 1000 chunks, whatever the text,
\* chunkSize and overlap.
C9_AtMostThousandChunks ==
  cpc = "done" => Len(result) <= MaxChunks

\* C10: chunkText terminates for every text, chunkSize and overlap: every
\* iteration of the loop pushes one chunk and the loop is left once more
\* than MaxChunks chunks are pushed, so the loop body runs at most
\* MaxChunks + 1 times, also when the window start does not advance.
C10_Terminates ==
  /\ Len(chunks) <= MaxChunks + 1
  /\ cpc = "break" <=> (Len(chunks) = MaxChunks + 1 /\ cpc # "done")
  /\ cpc = "done" => (Len(chunks) = MaxChunks + 1 \/ ~(startIndex < Len(text)))

\* C10 witness: a call whose window start never advanced (overlap >=
\* chunkSize) has returned, after the cap stopped it
C10_Witness ==
  /\ cpc = "done"
  /\ overlap >= chunkSize
  /\ startIndex <= 0
  /\ Len(chunks) = MaxChunks + 1

\* the overlap range for which chunkText is documented to move forward
ProgressOverlap == 0 <= overlap /\ overlap < chunkSize

\* C11: for any text and 0 <= overlap < chunkSize every iteration of the
\* loop makes forward progress: the window start after the iteration is
\* strictly greater than the window start of the iteration (recorded as the
\* startIndex of the chunk it pushed) and is never negative, whether the
\* chunk was broken at a space or at the hard boundary.
C11_ForwardProgress ==
  (ProgressOverlap /\ Len(chunks) > 0)
  => /\ startIndex > chunks[Len(chunks)].startIndex
     /\ startIndex >= 0

\* C11, the case in the code: with 0 <= overlap < chunkSize an iteration
\* broke its chunk at a space and left the window start where it was
C11_Stalled ==
  /\ ProgressOverlap
  /\ Len(chunks) > 0
  /\ chunks[Len(chunks)].endIndex < chunks[Len(chunks)].startIndex + chunkSize
  /\ chunks[Len(chunks)].endIndex < Len(text)
  /\ startIndex = chunks[Len(chunks)].startIndex

----------------------------------------------------------------------------
(* Claims about the two cosineSimilarity functions, checked under SpecCosine *)

\* C12: on vectors of unequal length OpenAIEmbeddingService.cosineSimilarity
\* always fails with its error and never returns a number, while the chunk
\* store's ranking similarity always returns 0 and never fails.
C12_MismatchPolicies ==
  Len(vecA) # Len(vecB)
  => /\ serviceSimilarity.kind # "number"
     /\ serviceSimilarity.kind = "error"
          => serviceSimilarity.error = SameLengthError
     /\ repositorySimilarity.kind # "error"
     /\ repositorySimilarity.kind = "number"
          => repositorySimilarity.value = Zero

\* C12 witness: both functions were applied to a vector of dimension 1 and
\* one of dimension 2; one threw, the other returned 0
C12_Witness ==
  /\ Len(vecA) = 1
  /\ Len(vecB) = 2
  /\ serviceSimilarity = Failure(SameLengthError)
  /\ repositorySimilarity = Number(Zero)

----------------------------------------------------------------------------
(* Claims about TranscriptChunkRepository, checked under SpecStore *)

\* the similarity findSimilarChunks ranks a chunk by in the last call
RankedBy(chunk) ==
  RepositoryCosineSimilarity(repoCall.queryEmbedding, chunk.embedding).value

\* C14: whenever findSimilarChunks is called with a sessionIds filter, for
\* every supplied list of session identifiers, every returned chunk's
\* sessionId is a member of that filter.
C14_ReturnedWithinFilter ==
  (repoCall.op = "find" /\ repoCall.sessionIds.given)
  => \A i \in DOMAIN repoCall.returned :
       \E k \in DOMAIN repoCall.sessionIds.ids :
         repoCall.returned[i].sessionId = repoCall.sessionIds.ids[k]

\* C14, the case in the code: findSimilarChunks called with the empty list
\* as filter returned chunks
C14_EmptyFilterUnrestricted ==
  /\ repoCall.op = "find"
  /\ repoCall.sessionIds.given
  /\ repoCall.sessionIds.ids = <<>>
  /\ Len(repoCall.returned) > 0

\* C15: findSimilarChunks returns min(limit, number of in-scope chunks)
\* chunks, all of them in scope, in non-increasing order of their cosine
\* similarity to the query vector, and no in-scope chunk that is left out
\* has a strictly greater similarity than a returned one.  In scope are the
\* rows the query of the call selects.
C15_TopRanked ==
  repoCall.op = "find"
  => LET scope == Selected(repoCall.sessionIds)
         returned == repoCall.returned
         leftOut == {row \in scope :
                       \A i \in DOMAIN returned : returned[i].id # row.id}
     IN /\ Len(returned) = Min(repoCall.limit, Cardinality(scope))
        /\ \A i \in DOMAIN returned :
             \E row \in scope : returned[i] = MapRowToChunk(row)
        /\ \A i, j \in DOMAIN returned :
             i < j => ~Greater(RankedBy(returned[j]), RankedBy(returned[i]))
        /\ \A row \in leftOut : \A i \in DOMAIN returned :
             ~Greater(RankedBy(MapRowToChunk(row)), RankedBy(returned[i]))

\* C15 witness: three chunks in scope, limit 2; the two returned chunks
\* differ in similarity and the chunk left out is strictly less similar
C15_Witness ==
  /\ repoCall.op = "find"
  /\ Cardinality(Selected(repoCall.sessionIds)) = 3
  /\ repoCall.limit = 2
  /\ Len(repoCall.returned) = 2
  /\ Greater(RankedBy(repoCall.returned[1]), RankedBy(repoCall.returned[2]))
  /\ \E row \in Selected(repoCall.sessionIds) :
       Greater(RankedBy(repoCall.returned[2]), RankedBy(MapRowToChunk(row)))

\* C16: deleteBySessionId(s) removes every stored chunk whose sessionId is s
\* and leaves the other chunks; called when s has no chunks, or a second
\* time in a row, it leaves the table as it found it (the call has no
\* failing outcome).
C16_DeleteIdempotent ==
  repoCall.op = "delete"
  => /\ \A row \in transcriptChunks : row.sessionId # repoCall.sessionId
     /\ transcriptChunks =
          {row \in repoCall.before : row.sessionId # repoCall.sessionId}
     /\ (\/ \A row \in repoCall.before : row.sessionId # repoCall.sessionId
         \/ repoCall.previous = <<"delete", repoCall.sessionId>>)
        => transcriptChunks = repoCall.before

\* C16 witness: deleteBySessionId("s1") called a second time in a row, on a
\* table that holds chunks of another session
C16_Witness ==
  /\ repoCall.op = "delete"
  /\ repoCall.sessionId = "s1"
  /\ repoCall.previous = <<"delete", "s1">>
  /\ \E row \in transcriptChunks : row.sessionId = "s2"

----------------------------------------------------------------------------
(* Claims about SessionService, checked under SpecSession *)

\* C13: for every candidate chunk that findSimilarChunks returns to
\* searchSessions, the similarity searchSessions re-computes against the
\* query vector equals the similarity the store ranked the chunk by; the
\* re-scoring never yields another value, nor an error where the store
\* produced a score.
C13_RescoringAgrees ==
  /\ search.pc = "score"
       => \A i \in DOMAIN search.chunks :
            ServiceCosineSimilarity(search.queryEmbedding,
                                    search.chunks[i].embedding)
              = RepositoryCosineSimilarity(search.queryEmbedding,
                                           search.chunks[i].embedding)
  /\ search.error # SameLengthError

\* C13, the case in the code: the store ranked and returned chunks, and
\* searchSessions was rejected with the error of the re-scoring
C13_RescoringFailed ==
  /\ search.pc = "thrown"
  /\ search.error = SameLengthError
  /\ repoCall.op = "find"
  /\ Len(repoCall.returned) > 0

\* the ids of the chunks stored for the session of the embedSession call
StoredForSession ==
  {row.id : row \in {r \in transcriptChunks : r.sessionId = embed.sessionId}}

\* C17: within one embedSession call the deletion of the session's chunks
\* comes before the first creation of a chunk; when the call has returned
\* (no other operation interleaved) the chunks stored for the session are
\* exactly the chunks this call created, and none of the chunks the session
\* had before the call remains.
C17_DeleteThenRecreate ==
  /\ \A i \in DOMAIN embed.storeOps :
       embed.storeOps[i] = "create"
         => \E j \in 1..(i - 1) : embed.storeOps[j] = "delete"
  /\ embed.pc = "returned"
       => /\ StoredForSession = embed.created
          /\ StoredForSession \cap embed.before = {}
          /\ Cardinality(embed.created) = embed.chunkCount

\* C17 witness: embedSession returned for a session that had chunks before
\* the call, having created chunks again
C17_Witness ==
  /\ embed.pc = "returned"
  /\ embed.before # {}
  /\ Cardinality(embed.created) = 2

\* C18: if the embedding call for a chunk fails during embedSession, the
\* call fails as a whole (it rejects with the error, nothing is returned)
\* and the chunks the session had before the call are not restored: none
\* of them is in the table afterwards.
C18_FailureNotRestored ==
  embed.failedAt = "chunkEmbedding"
  => /\ embed.pc = "thrown"
     /\ embed.error = ProviderError(500)
     /\ \A row \in transcriptChunks : row.id \notin embed.before

\* C18 witness: the embedding of the second chunk failed in a call on a
\* session that had chunks before; the first new chunk is in the table
C18_Witness ==
  /\ embed.failedAt = "chunkEmbedding"
  /\ embed.before # {}
  /\ Cardinality(embed.created) = 1
  /\ StoredForSession = embed.created

\* an embedSession call on an existing session without entries has ended
ZeroEntriesCallEnded ==
  /\ embed.pc \in {"returned", "thrown"}
  /\ embed.sessionId \in DOMAIN sessions
  /\ Len(sessionEntries[embed.sessionId]) = 0

C20_BlankQueryRejected ==
  (/\ search.pc \in {"returned", "thrown"}
   /\ Len(Trim(search.query)) = 0)
  => /\ search.pc = "thrown"
     /\ search.error = AppError("Query parameter is required", 400)
     /\ ResponseStatus(search.error) = 400

\* C20, the case in the code: a query of one space passed the test of
\* searchSessions and was rejected by generateEmbedding, a server fault
C20_WhitespaceQuery ==
  /\ search.pc = "thrown"
  /\ search.query = <<" ">>
  /\ search.error = TextRequired
  /\ ResponseStatus(search.error) = 500

----------------------------------------------------------------------------
(* Claims about TextChunker.highlightText, checked under SpecHighlight *)

\* short is a part of long, and shorter
ProperSubstring(short, long) ==
  /\ Len(short) > 0
  /\ Len(short) < Len(long)
  /\ \E i \in 1..(Len(long) - Len(short) + 1) :
       SubSeq(long, i, i + Len(short) - 1) = short

\* block occurs in s
Contains(s, block) ==
  \E i \in 1..(Len(s) - Len(block) + 1) :
    SubSeq(s, i, i + Len(block) - 1) = block

\* the places where term occurs in text, whatever the case
Occurrences(original, term) ==
  {i \in 1..(Len(original) - Len(term) + 1) :
     ToLowerCase(SubSeq(original, i, i + Len(term) - 1)) = ToLowerCase(term)}

\* highlightText has been applied to two terms, one a part of the other
SubstringTermsHighlighted ==
  /\ Len(highlight.highlighted) > 0
  /\ Len(highlight.queryTerms) = 2
  /\ \/ ProperSubstring(ToLowerCase(highlight.queryTerms[1]),
                        ToLowerCase(highlight.queryTerms[2]))
     \/ ProperSubstring(ToLowerCase(highlight.queryTerms[2]),
                        ToLowerCase(highlight.queryTerms[1]))

\* C27: when one query term is a substring of another, highlightText leaves
\* every occurrence of the longer term in the text wrapped in one
\* <mark>...</mark> pair with its characters intact and no markup inside
\* it: the result holds <mark>, the occurrence as it is in the text, </mark>
\* in one piece.
C27_LongerTermIntact ==
  SubstringTermsHighlighted
  => LET long == SortedTerms(highlight.queryTerms)[1]
     IN \A i \in Occurrences(highlight.text, long) :
          Contains(highlight.highlighted,
                   Mark(SubSeq(highlight.text, i, i + Len(long) - 1)))

\* C27, the case in the code: highlightText('ab', ['ab', 'b']) wraps 'ab',
\* then finds 'b' at offset 7 of '<mark>ab</mark>' and replaces it with the
\* (empty) slice of the text at that offset
C27_LongerTermClobbered ==
  /\ highlight.text = <<"a", "b">>
  /\ highlight.queryTerms = <<<<"a", "b">>, <<"b">>>>
  /\ highlight.highlighted =
       <<"<", "m", "a", "r", "k", ">">> \o <<"a">>
         \o Mark(<<>>) \o <<"<", "/", "m", "a", "r", "k", ">">>

----------------------------------------------------------------------------
(* Claims about searchSessions, checked under SpecSearch *)

\* searchSessions has called the collaborator method
Called(method) == \E i \in DOMAIN search.calls : search.calls[i] = method

\* C21: searchSessions("", undefined) fails with the validation error (an
\* AppError with status 400) before any call to the embedding provider,
\* the session store or the chunk store is made.
C21_EmptyQueryFailsFirst ==
  (search.pc # "idle" /\ search.query = <<>> /\ search.therapistId = "")
  => /\ search.pc = "thrown"
     /\ search.error = AppError("Query parameter is required", 400)
     /\ search.calls = <<>>

\* C21 witness: the call with the empty query and no therapistId was
\* rejected, on a table that holds chunks
C21_Witness ==
  /\ search.pc = "thrown"
  /\ search.query = <<>>
  /\ search.therapistId = ""
  /\ transcriptChunks # {}

C23_OwnerOnly ==
  (search.therapistId # "" /\ search.pc \in {"build", "returned"})
  => /\ \A i \in DOMAIN search.chunks :
          \E j \in DOMAIN search.sessionIds.ids :
            search.chunks[i].sessionId = search.sessionIds.ids[j]
     /\ \A k \in DOMAIN search.results :
          /\ search.results[k].therapistId = search.therapistId
          /\ \A n \in DOMAIN search.results[k].snippets :
               search.results[k].snippets[n].chunk.sessionId
                 = search.results[k].sessionId

\* C23 witness: the search for t1 returned a result, s1, while the other
\* therapist's session had a chunk that is as similar to the query as the
\* best chunk of s1
C23_Witness ==
  /\ search.pc = "returned"
  /\ search.therapistId = "t1"
  /\ Len(search.results) = 1
  /\ search.results[1].sessionId = "s1"
  /\ \E row \in transcriptChunks :
       /\ row.sessionId = "s2"
       /\ RepositoryCosineSimilarity(search.queryEmbedding,
                                     JsonParse(row.embedding)).value
            = search.results[1].similarity

\* the similarities searchSessions computed for the candidates of a session
CandidateSimilarities(sessionId) ==
  {ServiceCosineSimilarity(search.queryEmbedding,
                           search.chunks[i].embedding).value :
     i \in {j \in DOMAIN search.chunks :
              search.chunks[j].sessionId = sessionId}}

\* C24: the results of searchSessions hold each sessionId at most once, are
\* in non-increasing order of session similarity, which is the greatest
\* similarity of the session's candidate chunks, and are at most
\* SEARCH_RESULTS_LIMIT.
C24_ResultsRanked ==
  search.pc = "returned"
  => /\ Len(search.results) <= config.SEARCH_RESULTS_LIMIT
     /\ \A k, l \in DOMAIN search.results :
          k < l => /\ search.results[k].sessionId # search.results[l].sessionId
                   /\ ~Greater(search.results[l].similarity,
                               search.results[k].similarity)
     /\ \A k \in DOMAIN search.results :
          /\ search.results[k].similarity
               \in CandidateSimilarities(search.results[k].sessionId)
          /\ \A sim \in CandidateSimilarities(search.results[k].sessionId) :
               ~Greater(sim, search.results[k].similarity)

\* C24 witness: two sessions in the results, the first more similar than
\* the second
C24_Witness ==
  /\ search.pc = "returned"
  /\ Len(search.results) = 2
  /\ Greater(search.results[1].similarity, search.results[2].similarity)

\* C25: in every result the snippets are the candidates of the session with
\* the highest similarities: at most 3, in non-increasing order of their
\* similarity, the first as similar as the session; a candidate of the
\* session that is no snippet is not more similar than any snippet.
C25_TopSnippets ==
  search.pc = "returned"
  => \A k \in DOMAIN search.results :
       LET snippets == search.results[k].snippets
           others == {i \in DOMAIN search.chunks :
                        /\ search.chunks[i].sessionId
                             = search.results[k].sessionId
                        /\ \A n \in DOMAIN snippets :
                             snippets[n].chunk.id # search.chunks[i].id}
       IN /\ Len(snippets) <= 3
          /\ Len(snippets) >= 1
          /\ snippets[1].similarity = search.results[k].similarity
          /\ \A n, m \in DOMAIN snippets :
               n < m => ~Greater(snippets[m].similarity,
                                 snippets[n].similarity)
          /\ \A i \in others :
               /\ Len(snippets) = 3
               /\ \A n \in DOMAIN snippets :
                    ~Greater(ServiceCosineSimilarity(
                               search.queryEmbedding,
                               search.chunks[i].embedding).value,
                             snippets[n].similarity)

\* C25 witness: a session with four candidates, three of them snippets with
\* three different similarities
C25_Witness ==
  /\ search.pc = "returned"
  /\ \E k \in DOMAIN search.results :
       /\ Cardinality({i \in DOMAIN search.chunks :
                         search.chunks[i].sessionId
                           = search.results[k].sessionId}) = 4
       /\ Len(search.results[k].snippets) = 3
       /\ Greater(search.results[k].snippets[1].similarity,
                  search.results[k].snippets[2].similarity)
       /\ Greater(search.results[k].snippets[2].similarity,
                  search.results[k].snippets[3].similarity)

\* the candidate groups whose session was found when the results were built
GroupsFound ==
  {k \in DOMAIN search.sessionMap :
     search.sessionMap[k].sessionId \notin search.skipped}

\* C26: if the session of a candidate group is absent when the results are
\* built, searchSessions leaves that session out and returns, without an
\* error, the results of the other sessions (as many of them as
\* SEARCH_RESULTS_LIMIT allows).
C26_DeletedSessionSkipped ==
  Called("findById")
  => /\ search.pc = "returned"
     /\ \A k \in DOMAIN search.results :
          /\ search.results[k].sessionId \notin search.skipped
          /\ \E g \in GroupsFound :
               search.sessionMap[g].sessionId = search.results[k].sessionId
     /\ Len(search.results)
          = Min(config.SEARCH_RESULTS_LIMIT, Cardinality(GroupsFound))

\* C26 witness: the session of the first candidate group was deleted after
\* its chunks were fetched; the result is the other session
C26_Witness ==
  /\ search.pc = "returned"
  /\ Len(search.sessionMap) = 2
  /\ search.skipped = {search.sessionMap[1].sessionId}
  /\ Len(search.results) = 1
  /\ search.results[1].sessionId = search.sessionMap[2].sessionId

----------------------------------------------------------------------------
(* Claims about concurrent embedSession calls, checked under SpecEmbedRace *)

\* C28: two embedSession calls that run concurrently on the same session
\* are not mutually excluded: their steps interleave at every await, and a
\* chunk is in the store exactly if it was created after the deletes of
\* both calls.  When both calls delete before either creates, the chunks of
\* both calls stay: more chunks than one run creates.
C28_CreatedAfterBothDeletes ==
  StoredForSession
    = {id \in embed.created \cup suspended.created :
         id > embed.deletedAt /\ id > suspended.deletedAt}

\* C28 witness: both calls have returned and the store holds the chunks of
\* both, twice as many as one call created
C28_Witness ==
  /\ embed.pc = "returned"
  /\ suspended.pc = "returned"
  /\ embed.created # {}
  /\ suspended.created # {}
  /\ StoredForSession = embed.created \cup suspended.created
  /\ Cardinality(StoredForSession) = embed.chunkCount + suspended.chunkCount
  /\ Cardinality(StoredForSession) > embed.chunkCount

----------------------------------------------------------------------------
(* Claims about concurrent callers of AIRateLimiter, checked under SpecTasks *)

\* some trailing window of length windowMs holds more than maxRequests
\* admitted calls
OverAdmitted == \E t \in 0..now : AdmittedInWindow(t) > limiter.maxRequests

\* the orders in which the calls of all the tasks can run
Orders ==
  {order \in [1..Cardinality(Tasks) -> Tasks] :
     \A i, j \in DOMAIN order : i # j => order[i] # order[j]}

\* the requestTimes array after the tasks have called checkRateLimit at the
\* current time, their calls running in the given order
RECURSIVE AfterCalls(_, _)
AfterCalls(times, order) ==
  IF Len(order) = 0 THEN times
  ELSE AfterCalls(AfterCheck(times), Tail(order))

\* C29 as stated: when several asynchronous tasks (more than maxRequests)
\* call checkRateLimit on one limiter concurrently, some interleaving
\* admits more than maxRequests calls within one windowMs window.  A call
\* has no await, so the order in which the calls run is all an
\* interleaving can choose: in some order the calls leave more than
\* maxRequests requests in the window.
C29_SomeInterleavingOverAdmits ==
  (/\ Cardinality(Tasks) > limiter.maxRequests
   /\ \A task \in Tasks : tasks[task] = "idle")
  => \E order \in Orders :
       Len(AfterCalls(requestTimes, order)) > limiter.maxRequests

\* C29 amended: checkRateLimit has no await, so the calls of concurrent
\* asynchronous tasks run one after the other whatever the order of the
\* tasks; no interleaving admits more than maxRequests calls within one
\* windowMs window (maxRequests >= 1).
C29_NoInterleavingOverAdmits == ~OverAdmitted

\* C29 witness: three tasks have called the limiter of maxRequests = 2 at
\* the same time and none has gone on yet; two were admitted, one rejected
C29_Witness ==
  /\ limiter.maxRequests = 2
  /\ \A task \in Tasks : tasks[task] # "idle"
  /\ Cardinality({task \in Tasks : tasks[task] = "admitted"}) = 2
  /\ \A i \in DOMAIN admitted : admitted[i] = now

----------------------------------------------------------------------------
(* Claims about the wait AIRateLimiter reports, checked under SpecLimiter *)

\* the last limiter call was a checkRateLimit that was rejected
Rejected ==
  /\ limiter.maxRequests >= 1
  /\ ~resetCalled
  /\ lastCheck.op = "check"
  /\ lastCheck.result = "rejected"

\* the oldest admitted call in the trailing window that ends at time t (t
\* itself when the window holds no call)
OldestInWindow(t) ==
  LET inWindow == {admitted[i] : i \in {j \in DOMAIN admitted :
                                          /\ admitted[j] <= t
                                          /\ t - admitted[j] < limiter.windowMs}}
  IN IF inWindow = {} THEN t ELSE SetMin(inWindow)

\* the wait the error message of the rejected call reports, in milliseconds
ReportedWait == RetryAfterSeconds(lastCheck.wait) * MsPerSecond

----------------------------------------------------------------------------
(* Claims about the backoff delays of AIRetryHelper.retry, checked under    *)
(* SpecRetry                                                                *)

----------------------------------------------------------------------------
(* Claims about embedSession, checked under SpecSession *)

\* an embedSession call has ended
EmbedEnded == embed.pc \in {"returned", "thrown"}

\* a call embedSession made to a summary or embedding service
ServiceCalls == {"generateSummary", "generateEmbedding"}

\* C32: embedSession called with a sessionId that has no session record
\* fails with a not-found (404) error, makes no summary or embedding
\* provider call, and changes nothing in the session, entry or chunk stores.
C32_MissingSessionNotFound ==
  (/\ EmbedEnded
   /\ embed.sessionId \notin DOMAIN embed.stores[1])
  => /\ embed.pc = "thrown"
     /\ embed.error = AppError("Session not found", 404)
     /\ ResponseStatus(embed.error) = 404
     /\ \A i \in DOMAIN embed.calls : embed.calls[i] \notin ServiceCalls
     /\ <<sessions, sessionEntries, transcriptChunks>> = embed.stores

\* C32 witness: embedSession of an unknown id has failed, with chunks of an
\* earlier call in the store
C32_Witness ==
  /\ embed.pc = "thrown"
  /\ embed.sessionId = "s0"
  /\ embed.calls = <<"findById">>
  /\ transcriptChunks # {}
  /\ Len(sessions["s1"].summary) > 0

----------------------------------------------------------------------------
(* More claims about searchSessions, checked under SpecSearch *)

\* the position of the first call of the collaborator method among the calls
\* of searchSessions (0 when it was not called)
FirstCall(method) ==
  IF Called(method)
  THEN SetMin({i \in DOMAIN search.calls : search.calls[i] = method})
  ELSE 0

\* C33: in searchSessions with a therapistId, the findByTherapistId lookup
\* and its empty-set short-circuit come before the query is embedded, so a
\* search for a therapist that has no sessions makes no call to
\* generateEmbedding.
C33_LookupBeforeEmbedding ==
  (search.therapistId # "" /\ Called("findByTherapistId"))
  => /\ Called("generateEmbedding")
          => FirstCall("findByTherapistId") < FirstCall("generateEmbedding")
     /\ Len(search.sessionIds.ids) = 0 => ~Called("generateEmbedding")

\* C33, what happens instead: the search for the owner of no session has
\* returned zero results after the query was embedded first
C33_EmbeddedBeforeLookup ==
  /\ search.pc = "returned"
  /\ search.therapistId = "t3"
  /\ search.results = <<>>
  /\ search.calls = <<"generateEmbedding", "findByTherapistId">>

----------------------------------------------------------------------------
(* More claims about AIRetryHelper.retry, checked under SpecRetry *)

\* C34: retry invokes the operation at least once before it reports a
\* failure, for every value of maxRetries (0, negative, unparsable); it
\* never fails with 'Retry failed' without having attempted the operation.
C34_AttemptedBeforeFailure ==
  pc = "thrown" => Len(fnCalls) >= 1 /\ thrown # RetryFailed

\* C34, what happens instead: with maxRetries = -1 the loop body never runs
\* and retry rejects with 'Retry failed', the operation not invoked
C34_FailedWithoutAttempt ==
  /\ opts.maxRetries = -1
  /\ pc = "thrown"
  /\ fnCalls = <<>>
  /\ providerLog = <<>>
  /\ thrown = RetryFailed

----------------------------------------------------------------------------
(* More claims about AIRateLimiter, checked under SpecLimiter *)

\* the calls admitted since the last reset() (all of them when reset() was
\* never called) in the trailing window that ends at time t
AdmittedSinceReset(t) ==
  Cardinality({i \in DOMAIN admitted :
                 /\ i > forgotten
                 /\ admitted[i] <= t
                 /\ t - admitted[i] < limiter.windowMs})

\* requestTimes holds at most maxRequests entries, and a rejected
\* checkRateLimit call has left it as long as its length test found it
ListWithinLimit ==
  /\ Len(requestTimes) <= limiter.maxRequests
  /\ (lastCheck.op = "check" /\ lastCheck.result = "rejected")
       => Len(requestTimes) = lastCheck.length

\* C35 as stated: after any sequence of checkRateLimit, getRemainingRequests
\* and reset calls (maxRequests >= 0), requestTimes holds at most
\* maxRequests entries and a rejected checkRateLimit call adds no entry to
\* it, so getRemainingRequests always equals maxRequests minus the number
\* of admitted calls still inside the window.
C35_RemainingCountsAdmitted ==
  limiter.maxRequests >= 0
  => /\ ListWithinLimit
     /\ lastCheck.op = "remaining"
          => lastCheck.result = ToString(limiter.maxRequests - lastCheck.count)

\* C35, amended: requestTimes holds at most maxRequests entries and a
\* rejected checkRateLimit call adds no entry to it; getRemainingRequests
\* equals maxRequests minus the number of calls admitted since the last
\* reset() that are still inside the window.
C35_RemainingCountsSinceReset ==
  limiter.maxRequests >= 0
  => /\ ListWithinLimit
     /\ lastCheck.op = "remaining"
          => lastCheck.result
               = ToString(limiter.maxRequests
                            - AdmittedSinceReset(lastCheck.at))

\* C35 witness: getRemainingRequests after a call was admitted, reset() was
\* called and another call was admitted, all inside one window: it reports
\* one request more than the admitted calls in the window leave
C35_Witness ==
  /\ limiter.maxRequests = 2
  /\ lastCheck.op = "remaining"
  /\ forgotten = 1
  /\ AdmittedSinceReset(lastCheck.at) = 1
  /\ lastCheck.count = 2
  /\ lastCheck.result = "1"

----------------------------------------------------------------------------
(* More claims about embedSession, checked under SpecSession *)

\* the number of generateEmbedding calls embedSession has made
EmbeddingCalls ==
  Cardinality({i \in DOMAIN embed.calls :
                 embed.calls[i] = "generateEmbedding"})

\* C36: if embedSession fails while embedding its k-th chunk, there is no
\* rollback: the k-1 chunks already created by this call stay in the chunk
\* store, and the summary and summary embedding written earlier in the call
\* stay on the session record.  (The call has embedded the summary, k-1
\* chunks and, failing, the k-th: k + 1 generateEmbedding calls.)
C36_NoRollback ==
  embed.failedAt = "chunkEmbedding"
  => /\ embed.pc = "thrown"
     /\ Cardinality(embed.created) = EmbeddingCalls - 2
     /\ embed.created \subseteq StoredForSession
     /\ Len(embed.summary) > 0
     /\ sessions[embed.sessionId].summary = embed.summary
     /\ Len(embed.embedding) > 0
     /\ sessions[embed.sessionId].embedding = JsonStringify(embed.embedding)

\* C36 witness: the embedding of the second chunk failed in a call that
\* wrote the summary and its embedding on a session that had neither
C36_Witness ==
  /\ embed.failedAt = "chunkEmbedding"
  /\ EmbeddingCalls = 3
  /\ Cardinality(embed.created) = 1
  /\ embed.stores[1][embed.sessionId].summary = <<>>
  /\ embed.stores[1][embed.sessionId].embedding = <<>>
  /\ sessions[embed.sessionId].summary = <<"o", "k">>

----------------------------------------------------------------------------
(* Claims about the over-fetch of searchSessions, checked under SpecSearch *)

\* the sessions of the chunks that findSimilarChunks selected (the chunks
\* stored for the sessions searched) and that exist when the call returns
SessionsInScope ==
  {repoCall.rows[i].sessionId : i \in DOMAIN repoCall.rows} \cap DOMAIN sessions

\* the cosine similarities to the query of all the chunks stored for the
\* session
StoredSimilarities(sessionId) ==
  {ServiceCosineSimilarity(search.queryEmbedding,
                           MapRowToChunk(repoCall.rows[i]).embedding).value :
     i \in {j \in DOMAIN repoCall.rows :
              repoCall.rows[j].sessionId = sessionId}}

\* the sessions of the results
Returned == {search.results[k].sessionId : k \in DOMAIN search.results}

\* C37: the similarity of every result of searchSessions is the maximum
\* cosine similarity to the query over all chunks stored for that session,
\* although only the top 3 x SEARCH_RESULTS_LIMIT candidate chunks are
\* fetched; and no session left out of the results has a greater maximum
\* similarity than a returned one.
C37_SessionMaximum ==
  (search.pc = "returned" /\ Called("findSimilarChunks"))
  => /\ \A k \in DOMAIN search.results :
          /\ search.results[k].similarity
               \in StoredSimilarities(search.results[k].sessionId)
          /\ \A sim \in StoredSimilarities(search.results[k].sessionId) :
               ~Greater(sim, search.results[k].similarity)
     /\ \A sessionId \in SessionsInScope \ Returned :
          \A sim \in StoredSimilarities(sessionId) :
            \A k \in DOMAIN search.results :
              ~Greater(sim, search.results[k].similarity)

\* C37 witness: more chunks were stored than were fetched, a chunk of the
\* returned session was not fetched, and a session with chunks was left out
C37_Witness ==
  /\ search.pc = "returned"
  /\ Len(repoCall.rows) > Len(search.chunks)
  /\ Len(search.results) = 1
  /\ Cardinality(StoredSimilarities(search.results[1].sessionId)) = 3
  /\ \E i \in DOMAIN repoCall.rows :
       /\ repoCall.rows[i].sessionId = search.results[1].sessionId
       /\ \A j \in DOMAIN search.chunks :
            search.chunks[j].id # repoCall.rows[i].id
  /\ SessionsInScope \ Returned # {}

\* C38: searchSessions returns min(SEARCH_RESULTS_LIMIT, number of distinct
\* existing in-scope sessions that have at least one stored chunk) results:
\* the 3x over-fetch of candidate chunks never makes it return fewer
\* sessions than the limit allows.
C38_AsManyAsLimitAllows ==
  (search.pc = "returned" /\ Called("findSimilarChunks"))
  => Len(search.results)
       = Min(config.SEARCH_RESULTS_LIMIT, Cardinality(SessionsInScope))

\* C38, what happens instead: with SEARCH_RESULTS_LIMIT = 2 the six chunks
\* fetched are all chunks of s1, and the search returns one session while
\* two existing sessions have stored chunks (no session was deleted)
C38_SessionCrowdedOut ==
  /\ search.pc = "returned"
  /\ search.therapistId = ""
  /\ config.SEARCH_RESULTS_LIMIT = 2
  /\ transcriptChunks = CrowdedTable
  /\ DOMAIN sessions = SessionIds
  /\ Len(search.chunks) = 6
  /\ SessionsInScope = {"s1", "s2"}
  /\ Returned = {"s1"}

----------------------------------------------------------------------------
(* More claims about TextChunker.chunkText, checked under SpecChunker *)

\* the characters of s at the offsets a <= off < b
Between(s, a, b) ==
  [i \in 1..(Min(b, Len(s)) - Max(a, 0)) |-> s[Max(a, 0) + i]]

\* t is s without its leading and trailing whitespace
TrimOf(t, s) ==
  /\ Len(t) > 0 => t[1] \notin Whitespace /\ t[Len(t)] \notin Whitespace
  /\ \E a \in 0..Len(s) :
       /\ a + Len(t) <= Len(s)
       /\ SubSeq(s, a + 1, a + Len(t)) = t
       /\ \A i \in (1..a) \cup ((a + Len(t) + 1)..Len(s)) : s[i] \in Whitespace

\* every returned chunk has a non-empty text, the trimmed substring of the
\* text between its startIndex and endIndex
TextIsTrimmedSpan ==
  \A i \in DOMAIN result :
    /\ Len(result[i].text) > 0
    /\ TrimOf(result[i].text,
              Between(text, result[i].startIndex, result[i].endIndex))

\* C39 as stated: every chunk returned by chunkText (whatever the
\* arguments) has a non-empty text that equals the whitespace-trimmed
\* substring of the source text between its startIndex and endIndex.
C39_TextIsTrimmedSpan == cpc = "done" => TextIsTrimmedSpan

\* C39, amended: for 0 <= overlap < chunkSize every chunk returned by
\* chunkText has a non-empty text that equals the whitespace-trimmed
\* substring of the source text between its startIndex and endIndex.
C39_TextIsTrimmedSpanInRange ==
  (cpc = "done" /\ ProgressOverlap) => TextIsTrimmedSpan

\* C39 witness: a call with 0 <= overlap < chunkSize returned several
\* chunks, one of them shorter than its span (whitespace was trimmed) and
\* one of them cut at a space
C39_Witness ==
  /\ cpc = "done"
  /\ ProgressOverlap
  /\ Len(result) >= 2
  /\ \E i \in DOMAIN result :
       Len(result[i].text) < result[i].endIndex - result[i].startIndex
  /\ \E i \in DOMAIN result :
       /\ result[i].endIndex < Len(text)
       /\ result[i].endIndex - result[i].startIndex < chunkSize

----------------------------------------------------------------------------
(* More claims about TextChunker.highlightText, checked under SpecHighlight *)

\* s begins with the characters of tag
StartsWith(s, tag) ==
  Len(s) >= Len(tag) /\ SubSeq(s, 1, Len(tag)) = tag

\* s with every <mark> and </mark> removed, read from left to right
RECURSIVE StripTags(_)
StripTags(s) ==
  LET open == <<"<", "m", "a", "r", "k", ">">>
      close == <<"<", "/", "m", "a", "r", "k", ">">>
  IN IF Len(s) = 0 THEN <<>>
     ELSE IF StartsWith(s, open)
          THEN StripTags(SubSeq(s, Len(open) + 1, Len(s)))
          ELSE IF StartsWith(s, close)
               THEN StripTags(SubSeq(s, Len(close) + 1, Len(s)))
               ELSE <<s[1]>> \o StripTags(Tail(s))

\* C40: for any text and any list of query terms, removing every <mark> and
\* </mark> tag from the output of highlightText yields the original text
\* unchanged: highlighting only inserts markup and preserves the original
\* characters and casing, also when several terms match.
C40_OnlyMarkupInserted ==
  highlight.highlighted # <<>>
  => StripTags(highlight.highlighted) = highlight.text

\* C40, what happens instead: two terms match and characters of the text
\* are lost, highlightText('ab', ['ab', 'b']) without its tags is 'a'
C40_CharactersLost ==
  /\ highlight.text = <<"a", "b">>
  /\ highlight.queryTerms = <<<<"a", "b">>, <<"b">>>>
  /\ highlight.highlighted # <<>>
  /\ StripTags(highlight.highlighted) = <<"a">>

====
